---- MODULE Spec2Model ----
(***************************************************************************)
(* Model of the SAID data layer (src/data.py): the parameter stores, the   *)
(* data managers with their origin ledgers, the constituent/surrogate      *)
(* aggregation and the ADVM acoustic data set.                             *)
(*                                                                         *)
(* A pandas DataFrame is a record [cols, rows]: cols is the set of column  *)
(* names and rows the sequence of rows in frame order, each row a record   *)
(* [t |-> index label, v |-> [column -> value]].  A missing value is NaN.  *)
(* An origin ledger is a DataFrame of (variable, origin) rows: a record    *)
(* [frame, keys, rows].  A run of the program is one scenario (mode): the  *)
(* plain data managers, the parameter store, ...; each scenario has its    *)
(* own specification and Spec is their union.                              *)
(***************************************************************************)
EXTENDS Integers, Sequences, FiniteSets, TLC

VARIABLES mode, obj, store, rating_model, last

vars == <<mode, obj, store, rating_model, last>>

(***************************************************************************)
(* Bounds of the model.                                                    *)
(***************************************************************************)
MaxTime == 2
MaxLedger == 2
MaxUpdate == 2
StoreCells == 2

Times == 1..MaxTime
Vars == {"Q", "T"}
Origins == {"f1", "f2"}
Slots == {1, 2}

(* np.nan: the missing value of a table cell *)
NaN == -1000000

(***************************************************************************)
(* Generic helpers.                                                        *)
(***************************************************************************)
RECURSIVE SortSet(_)
SortSet(S) ==
    IF S = {} THEN <<>>
    ELSE LET m == CHOOSE x \in S : \A y \in S : x <= y
         IN <<m>> \o SortSet(S \ {m})

SeqsUpTo(S, n) == UNION {[1..k -> S] : k \in 0..n}

Range(s) == {s[i] : i \in DOMAIN s}

(***************************************************************************)
(* DataFrame operations used by the data managers.                         *)
(***************************************************************************)
Index(tb) == {tb.rows[i].t : i \in DOMAIN tb.rows}

EmptyTable == [cols |-> {}, rows |-> <<>>]

(* a row widened to the column set C, new columns filled with NaN *)
Widen(row, C) ==
    [t |-> row.t, v |-> [c \in C |-> IF c \in DOMAIN row.v THEN row.v[c] ELSE NaN]]

(* pd.concat([a, b]): the rows of a followed by the rows of b, over the union of the columns *)
Concat(a, b) ==
    LET C == a.cols \cup b.cols
    IN [cols |-> C,
        rows |-> [i \in 1..Len(a.rows) |-> Widen(a.rows[i], C)]
                 \o [i \in 1..Len(b.rows) |-> Widen(b.rows[i], C)]]

(* positions of the rows labelled t whose column c is not missing *)
ValidAt(tb, t, c) == {i \in DOMAIN tb.rows : tb.rows[i].t = t /\ tb.rows[i].v[c] # NaN}

(* mutant: the value of the first row of the label, missing or not *)
FirstValue_FirstRow(tb, t, c) ==
    LET P == {i \in DOMAIN tb.rows : tb.rows[i].t = t}
    IN tb.rows[CHOOSE i \in P : \A j \in P : i <= j].v[c]

(* groupby(level=0).first(): per label and column the first non-missing value *)
FirstValue(tb, t, c) ==
    LET P == ValidAt(tb, t, c)
    IN IF P = {} THEN NaN ELSE tb.rows[CHOOSE i \in P : \A j \in P : i <= j].v[c]

(* groupby(level=0).last(): per label and column the last non-missing value *)
LastValue(tb, t, c) ==
    LET P == ValidAt(tb, t, c)
    IN IF P = {} THEN NaN ELSE tb.rows[CHOOSE i \in P : \A j \in P : i >= j].v[c]

GroupFirst(tb) ==
    LET s == SortSet(Index(tb))
    IN [cols |-> tb.cols,
        rows |-> [i \in 1..Len(s) |-> [t |-> s[i], v |-> [c \in tb.cols |-> FirstValue(tb, s[i], c)]]]]

GroupLast(tb) ==
    LET s == SortSet(Index(tb))
    IN [cols |-> tb.cols,
        rows |-> [i \in 1..Len(s) |-> [t |-> s[i], v |-> [c \in tb.cols |-> LastValue(tb, s[i], c)]]]]

(* the index of get_variable(c): the labels of the rows left by dropna() *)
ObsTimes(tb, c) == {tb.rows[i].t : i \in {j \in DOMAIN tb.rows : tb.rows[j].v[c] # NaN}}

(* the cell of a table with one row per label (NaN when the label or the column is absent) *)
Cell(tb, t, c) ==
    IF c \in tb.cols /\ t \in Index(tb)
    THEN tb.rows[CHOOSE i \in DOMAIN tb.rows : tb.rows[i].t = t].v[c]
    ELSE NaN

(***************************************************************************)
(* Origin ledgers.                                                         *)
(***************************************************************************)
LedgerKeys == <<"variable", "origin">>

MkLedger(r) == [frame |-> TRUE, keys |-> LedgerKeys, rows |-> r]

LedgerVars(lg) == {lg.rows[i].variable : i \in DOMAIN lg.rows}

LedgerPairs(lg) == Range(lg.rows)

(* drop_duplicates(): keep the first occurrence of every row *)
RECURSIVE DropDuplicates(_)
DropDuplicates(r) ==
    IF r = <<>> THEN <<>>
    ELSE LET front == DropDuplicates(SubSeq(r, 1, Len(r) - 1))
             x == r[Len(r)]
         IN IF x \in Range(front) THEN front ELSE Append(front, x)

(* mutant: only checks that every ledger variable is a column *)
CheckOrigin_SubsetOnly(data, origin) ==
    IF ~origin.frame THEN "TypeError"
    ELSE IF origin.keys # LedgerKeys THEN "DataOriginError"
    ELSE IF ~(LedgerVars(origin) \subseteq data.cols) THEN "DataOriginError"
    ELSE "none"

(* DataManager._check_origin *)
CheckOrigin(data, origin) ==
    IF ~origin.frame THEN "TypeError"
    ELSE IF origin.keys # LedgerKeys THEN "DataOriginError"
    ELSE IF (LedgerVars(origin) \cap data.cols) # (LedgerVars(origin) \cup data.cols)
         THEN "DataOriginError"
    ELSE "none"

(***************************************************************************)
(* Data managers.                                                          *)
(***************************************************************************)
(* a surrogate variable without an entry in _surrogate_variable_avg_window *)
NoWindow == -1

NoObj ==
    [alive |-> FALSE, kind |-> "none", data |-> EmptyTable, origin |-> MkLedger(<<>>),
     acoustic |-> EmptyTable, config |-> [kind |-> "config", cells |-> 0, dict |-> <<>>],
     proc |-> [kind |-> "proc", cells |-> 0, dict |-> <<>>],
     cell_range |-> <<>>, mb |-> <<>>, wcb |-> <<>>, scb |-> <<>>,
     surrogate |-> 0, window |-> [variable \in Vars |-> NoWindow]]

(* DataManager.__init__ (after _check_origin has passed) *)
NewDataManager(data, origin) ==
    [NoObj EXCEPT !.alive = TRUE, !.kind = "DataManager", !.data = data, !.origin = origin]

(* DataManager.get_variable_names *)
GetVariableNames(m) == m.data.cols

(* mutant: compares the table indexes without dropping the missing observations *)
ConcurrentObs_NoDropna(self, other) ==
    \E variable \in GetVariableNames(other) :
        /\ variable \in GetVariableNames(self)
        /\ Index(other.data) \cap Index(self.data) # {}

(* DataManager._check_for_concurrent_obs: TRUE when the error is raised *)
ConcurrentObs(self, other) ==
    \E variable \in GetVariableNames(other) :
        /\ variable \in GetVariableNames(self)
        /\ ObsTimes(other.data, variable) \cap ObsTimes(self.data, variable) # {}

(* DataManager.get_variable_origin *)
GetVariableOrigin(m, name) ==
    SelectSeq(m.origin.rows, LAMBDA r : r.variable = name)

(* mutant: keep_curr_obs is ignored and the current observations are always kept *)
MergeData_AlwaysFirst(self, other, keep) == GroupFirst(Concat(self.data, other.data))

(* the table part of DataManager.add_data *)
MergeData(self, other, keep) ==
    LET both == Concat(self.data, other.data)
    IN IF keep = "True" THEN GroupFirst(both) ELSE GroupLast(both)

(* mutant: the ledger of the receiving manager is kept as it is *)
MergeOrigin_SelfOnly(self, other) == self.origin

(* mutant: the ledgers are appended and the duplicates are kept *)
MergeOrigin_NoDedup(self, other) ==
    [self.origin EXCEPT !.rows = self.origin.rows \o other.origin.rows]

(* the ledger part of DataManager.add_data *)
MergeOrigin(self, other) ==
    [self.origin EXCEPT !.rows = DropDuplicates(self.origin.rows \o other.origin.rows)]

(* DataManager.add_data: the error raised ("none" on success) *)
AddDataError(self, other, keep) ==
    IF CheckOrigin(other.data, other.origin) # "none" THEN CheckOrigin(other.data, other.origin)
    ELSE IF keep = "None" /\ ConcurrentObs(self, other) THEN "ConcurrentObservationError"
    ELSE "none"

(* DataManager.add_data: the receiving manager after the call *)
AddDataResult(self, other, keep) ==
    IF AddDataError(self, other, keep) # "none" THEN self
    ELSE [self EXCEPT !.data = MergeData(self, other, keep),
                      !.origin = MergeOrigin(self, other)]

(***************************************************************************)
(* Python values held by the parameter stores: a record [k, n, s] with k   *)
(* the type, n the number (a float in hundredths, a bool as 0/1, an        *)
(* infinity as its sign) and s the text of a string.                       *)
(***************************************************************************)
PyInt(n) == [k |-> "int", n |-> n, s |-> ""]
PyFloat(h) == [k |-> "float", n |-> h, s |-> ""]
PyBool(b) == [k |-> "bool", n |-> IF b THEN 1 ELSE 0, s |-> ""]
PyInf(sign) == [k |-> "inf", n |-> sign, s |-> ""]
PyStr(str) == [k |-> "str", n |-> 0, s |-> str]

PyNaN == [k |-> "nan", n |-> 0, s |-> ""]

IsNumber(v) == v.k \in {"int", "float", "bool", "inf"}

(* the number in hundredths, an infinity beyond every finite value of the model *)
Hundredths(v) ==
    CASE v.k = "float" -> v.n
      [] v.k = "inf" -> v.n * 100000000
      [] OTHER -> v.n * 100

(* the strings float() parses *)
NumericStrings == {"2"}

(* np.float(value) succeeds *)
FloatOk(v) == IsNumber(v) \/ v.k = "nan" \/ (v.k = "str" /\ v.s \in NumericStrings)

(* ADVMProcParam.__init__: the default processing parameters *)
ProcDefaults ==
    [key \in {"Beam", "Backscatter Values", "Intensity Scale Factor",
              "Minimum Cell Mid-Point Distance", "Maximum Cell Mid-Point Distance",
              "Minimum Number of Cells", "Minimum Vbeam", "Near Field Correction",
              "WCB Profile Adjustment"} |->
        CASE key = "Beam" -> PyInt(1)
          [] key = "Backscatter Values" -> PyStr("SNR")
          [] key = "Intensity Scale Factor" -> PyFloat(43)
          [] key = "Minimum Cell Mid-Point Distance" -> PyInf(-1)
          [] key = "Maximum Cell Mid-Point Distance" -> PyInf(1)
          [] key = "Minimum Number of Cells" -> PyInt(2)
          [] key = "Minimum Vbeam" -> PyInf(-1)
          [] key = "Near Field Correction" -> PyBool(TRUE)
          [] OTHER -> PyBool(TRUE)]

NewProcParam(num_cells) == [kind |-> "proc", cells |-> num_cells, dict |-> ProcDefaults]

(* ADVMParam._check_key *)
CheckKey(p, key) == IF key \in DOMAIN p.dict THEN "none" ELSE "KeyError"

(* ADVMProcParam._check_value: the error raised ("none" when the value is accepted) *)
CheckValueProc(p, key, value) ==
    IF CheckKey(p, key) # "none" THEN CheckKey(p, key)
    ELSE IF key = "Beam" /\ ((IsNumber(value) /\ Hundredths(value) \in {100, 200})
                             \/ value = PyStr("Avg")) THEN "none"
    ELSE IF key = "Backscatter Values" /\ value \in {PyStr("SNR"), PyStr("Amp")} THEN "none"
    ELSE IF key = "Intensity Scale Factor" /\ ~IsNumber(value) THEN "TypeError"
    ELSE IF key = "Intensity Scale Factor" /\ 0 < Hundredths(value) THEN "none"
    ELSE IF key \in {"Minimum Cell Mid-Point Distance", "Maximum Cell Mid-Point Distance",
                     "Minimum Vbeam"}
         THEN (IF FloatOk(value) THEN "none" ELSE "ValueError")
    ELSE IF key = "Minimum Number of Cells" /\ ~IsNumber(value) THEN "TypeError"
    ELSE IF key = "Minimum Number of Cells"
            /\ 100 <= Hundredths(value) /\ Hundredths(value) <= 100 * p.cells THEN "none"
    ELSE IF key \in {"Near Field Correction", "WCB Profile Adjustment"} /\ value.k = "bool"
         THEN "none"
    ELSE "ValueError"

ConfigKeys ==
    {"Frequency", "Effective Transducer Diameter", "Beam Orientation", "Slant Angle",
     "Blanking Distance", "Cell Size", "Number of Cells", "Number of Beams"}

(* ADVMConfigParam.__init__: every configuration parameter starts as NaN *)
NewConfigParam == [kind |-> "config", cells |-> 0, dict |-> [key \in ConfigKeys |-> PyNaN]]

(* ADVMConfigParam._check_value: the error raised ("none" when the value is accepted) *)
CheckValueConfig(p, key, value) ==
    IF CheckKey(p, key) # "none" THEN CheckKey(p, key)
    ELSE IF key = "Beam Orientation"
         THEN (IF value \in {PyStr("Horizontal"), PyStr("Vertical")} THEN "none" ELSE "ValueError")
    ELSE IF value.k = "str" THEN "TypeError"
    ELSE IF key = "Number of Cells" /\ IsNumber(value) /\ 100 <= Hundredths(value)
            /\ value.k \in {"int", "bool"} THEN "none"
    ELSE IF key = "Number of Beams" /\ IsNumber(value) /\ 0 <= Hundredths(value)
            /\ value.k \in {"int", "bool"} THEN "none"
    ELSE IF key \notin {"Number of Cells", "Number of Beams"}
            /\ IsNumber(value) /\ 0 <= Hundredths(value) THEN "none"
    ELSE "ValueError"

(* the _check_value of the store's class *)
CheckValue(p, key, value) ==
    IF p.kind = "proc" THEN CheckValueProc(p, key, value) ELSE CheckValueConfig(p, key, value)

(* ADVMParam.__setitem__: the error raised *)
SetItemError(p, key, value) == CheckValue(p, key, value)

(* mutant: the value is assigned before it is checked *)
SetItemResult_AssignFirst(p, key, value) ==
    IF key \in DOMAIN p.dict THEN [p EXCEPT !.dict[key] = value] ELSE p

(* ADVMParam.__setitem__: the store after the call *)
SetItemResult(p, key, value) ==
    IF SetItemError(p, key, value) # "none" THEN p
    ELSE [p EXCEPT !.dict[key] = value]

(* mutant: every entry is validated first and nothing is applied when one fails *)
UpdateLoop_Atomic(p, entries) ==
    LET bad == {i \in DOMAIN entries :
                   CheckValue(p, entries[i].key, entries[i].value) # "none"}
    IN IF bad # {}
       THEN LET k == CHOOSE i \in bad : \A j \in bad : i <= j
            IN [store |-> p, err |-> CheckValue(p, entries[k].key, entries[k].value)]
       ELSE [store |-> [p EXCEPT !.dict =
                           [key \in DOMAIN p.dict |->
                               IF \E i \in DOMAIN entries : entries[i].key = key
                               THEN entries[CHOOSE i \in DOMAIN entries : entries[i].key = key].value
                               ELSE p.dict[key]]],
             err |-> "none"]

(* ADVMParam.update: the loop over update_values.items(), entry by entry; the result is *)
(* the store and the error that ended the loop ("none" when every entry was applied) *)
RECURSIVE UpdateLoop(_, _)
UpdateLoop(p, entries) ==
    IF entries = <<>> THEN [store |-> p, err |-> "none"]
    ELSE LET e == CheckValue(p, entries[1].key, entries[1].value)
         IN IF e # "none" THEN [store |-> p, err |-> e]
            ELSE UpdateLoop([p EXCEPT !.dict[entries[1].key] = entries[1].value], Tail(entries))

(***************************************************************************)
(* ADVM acoustic data: the correction pipeline.                            *)
(*                                                                         *)
(* Decibels are kept in hundredths, distances in centimetres, temperatures *)
(* in whole degrees.  A derived frame (cell range, MB, WCB, SCB) is the    *)
(* sequence of its rows [t, v] with v the vector of the cells 1..n.  The   *)
(* floating-point formulas are tabulated at the temperatures, frequency    *)
(* and cell ranges the inputs of the model produce.                        *)
(***************************************************************************)
RECURSIVE SumOver(_, _)
SumOver(f, S) ==
    IF S = {} THEN 0
    ELSE LET x == CHOOSE y \in S : TRUE IN f[x] + SumOver(f, S \ {x})

Valid(vec) == {k \in DOMAIN vec : vec[k] # NaN}

(* mean(skipna): the mean of the values that are not missing, NaN when there is none *)
MeanSkipNa(vec) ==
    IF Valid(vec) = {} THEN NaN ELSE SumOver(vec, Valid(vec)) \div Cardinality(Valid(vec))

(* the columns 'Cell{cc}{SNR|Amp}{b}' of the acoustic frame *)
CellCol(cell, kind, beam) ==
    CASE kind = "SNR" /\ beam = 1 -> <<"Cell01SNR1", "Cell02SNR1", "Cell03SNR1">>[cell]
      [] kind = "SNR" /\ beam = 2 -> <<"Cell01SNR2", "Cell02SNR2", "Cell03SNR2">>[cell]
      [] kind = "Amp" /\ beam = 1 -> <<"Cell01Amp1", "Cell02Amp1", "Cell03Amp1">>[cell]
      [] kind = "Amp" /\ beam = 2 -> <<"Cell01Amp2", "Cell02Amp2", "Cell03Amp2">>[cell]

HasCellCol(row, cell, kind, beam) ==
    /\ cell \in 1..3 /\ beam \in 1..2 /\ kind \in {"SNR", "Amp"}
    /\ CellCol(cell, kind, beam) \in DOMAIN row.v

NumberOfCells(o) == o.config.dict["Number of Cells"].n

(* cos(radians(slant_angle)), in hundredths *)
CosHundredths(angle) == IF Hundredths(angle) = 6000 THEN 50 ELSE 100

(* _update_cell_range: the mid-point distance of every cell along the beam *)
CellRangeVec(o) ==
    LET blanking_distance == Hundredths(o.config.dict["Blanking Distance"])
        cell_size == Hundredths(o.config.dict["Cell Size"])
        first_cell_mid_point == blanking_distance + cell_size \div 2
    IN [k \in 1..NumberOfCells(o) |->
           ((first_cell_mid_point + (k - 1) * cell_size) * 100)
              \div CosHundredths(o.config.dict["Slant Angle"])]

CellRangeFrame(o) ==
    [i \in 1..Len(o.acoustic.rows) |-> [t |-> o.acoustic.rows[i].t, v |-> CellRangeVec(o)]]

(* _get_mb_array: the backscatter of one beam, NaN for a cell whose column is not loaded *)
GetMbVec(o, row, backscatter_values, beam_number) ==
    [cell \in 1..NumberOfCells(o) |->
        IF HasCellCol(row, cell, backscatter_values, beam_number)
        THEN row.v[CellCol(cell, backscatter_values, beam_number)]
        ELSE NaN]

(* _update_measured_backscatter, one row: the beam or the mean of the beams, scaled for Amp *)
MeasuredBackscatterVec(o, row) ==
    LET backscatter_values == o.proc.dict["Backscatter Values"].s
        beam == o.proc.dict["Beam"]
        number_of_beams == o.config.dict["Number of Beams"].n
        picked == IF beam = PyStr("Avg")
                  THEN [cell \in 1..NumberOfCells(o) |->
                           MeanSkipNa([b \in 1..number_of_beams |->
                                          GetMbVec(o, row, backscatter_values, b)[cell]])]
                  ELSE GetMbVec(o, row, backscatter_values, beam.n)
        scale_factor == Hundredths(o.proc.dict["Intensity Scale Factor"])
    IN IF backscatter_values = "Amp"
       THEN [cell \in DOMAIN picked |->
                IF picked[cell] = NaN THEN NaN ELSE (scale_factor * picked[cell]) \div 100]
       ELSE picked

MeasuredBackscatterFrame(o) ==
    [i \in 1..Len(o.acoustic.rows) |->
        [t |-> o.acoustic.rows[i].t, v |-> MeasuredBackscatterVec(o, o.acoustic.rows[i])]]

(* 20 * log10(cell_range), cell_range in metres *)
TwentyLog10(r) ==
    CASE r = 50 -> -602 [] r = 100 -> 0 [] r = 150 -> 352 [] r = 200 -> 602
      [] r = 250 -> 796 [] r = 300 -> 954 [] r = 500 -> 1398

(* 20 * log10(psi): _calc_speed_of_sound, _calc_wavelength, _calc_rcrit and _calc_psi at *)
(* 3000 kHz and a transducer radius of 0.015 m                                           *)
TwentyLog10Psi(r, temperature) ==
    IF temperature = 10
    THEN CASE r = 50 -> 576 [] r = 100 -> 125 [] r = 150 -> 39 [] r = 200 -> 16
           [] r = 250 -> 8 [] r = 300 -> 5 [] r = 500 -> 1
    ELSE CASE r = 50 -> 554 [] r = 100 -> 117 [] r = 150 -> 37 [] r = 200 -> 15
           [] r = 250 -> 8 [] r = 300 -> 4 [] r = 500 -> 1

(* _calc_geometric_loss *)
GeometricLoss(r, temperature, nearfield_corr) ==
    IF nearfield_corr THEN TwentyLog10(r) + TwentyLog10Psi(r, temperature) ELSE TwentyLog10(r)

(* _calc_alpha_w at 3000 kHz, in hundredths of dB per metre *)
AlphaW(temperature) == IF temperature = 10 THEN 284 ELSE 186

(* _calc_water_absorption_loss *)
WaterAbsorptionLoss(r, temperature) == (2 * AlphaW(temperature) * r) \div 100

(* _calc_wcb: measured backscatter plus the two-way transmission loss *)
CalcWcb(mb, temperature, r, nearfield_corr) ==
    [k \in DOMAIN mb |->
        IF mb[k] = NaN \/ temperature = NaN THEN NaN
        ELSE mb[k] + GeometricLoss(r[k], temperature, nearfield_corr)
                   + WaterAbsorptionLoss(r[k], temperature)]

(* np.argmin over a row: the first NaN when there is one, else the first minimum *)
ArgMin(vec) ==
    LET nans == {k \in DOMAIN vec : vec[k] = NaN}
        mins == {k \in DOMAIN vec : \A j \in DOMAIN vec : vec[k] <= vec[j]}
        P == IF nans # {} THEN nans ELSE mins
    IN CHOOSE k \in P : \A j \in P : k <= j

(* _apply_minwcb_correction, one row *)
ApplyMinWcbCorrection(wcb, r) ==
    LET min_wcb_index == ArgMin(wcb)
        stepped == IF Cardinality(Valid(wcb)) > 1 /\ min_wcb_index > 1
                   THEN min_wcb_index - 1 ELSE min_wcb_index
        wcb_gt_min_index == {k \in DOMAIN r : r[k] > r[stepped]}
    IN IF Cardinality(wcb_gt_min_index) = 1 THEN wcb
       ELSE [k \in DOMAIN wcb |-> IF k \in wcb_gt_min_index THEN NaN ELSE wcb[k]]

(* _remove_min_vbeam, one row *)
RemoveMinVbeam(wcb, vbeam, min_vbeam) ==
    IF vbeam # NaN /\ vbeam < Hundredths(min_vbeam)
    THEN [k \in DOMAIN wcb |-> NaN] ELSE wcb

(* _apply_cell_range_filter, one row *)
ApplyCellRangeFilter(wcb, r, min_cell_range, max_cell_range) ==
    [k \in DOMAIN wcb |->
        IF Hundredths(max_cell_range) < r[k] \/ r[k] < Hundredths(min_cell_range)
        THEN NaN ELSE wcb[k]]

(* _update_water_corrected_backscatter, one row: reads the stored cell range and MB *)
WaterCorrectedVec(o, i) ==
    LET row == o.acoustic.rows[i]
        r == o.cell_range[i].v
        raw == IF o.config.dict["Frequency"] = PyNaN
               THEN [k \in DOMAIN o.mb[i].v |-> NaN]
               ELSE CalcWcb(o.mb[i].v, row.v["Temp"], r,
                            o.proc.dict["Near Field Correction"] = PyBool(TRUE))
        adjusted == IF o.proc.dict["WCB Profile Adjustment"] = PyBool(TRUE)
                    THEN ApplyMinWcbCorrection(raw, r) ELSE raw
        above == RemoveMinVbeam(adjusted, row.v["Vbeam"], o.proc.dict["Minimum Vbeam"])
    IN ApplyCellRangeFilter(above, r, o.proc.dict["Minimum Cell Mid-Point Distance"],
                            o.proc.dict["Maximum Cell Mid-Point Distance"])

WaterCorrectedFrame(o) ==
    [i \in 1..Len(o.acoustic.rows) |-> [t |-> o.acoustic.rows[i].t, v |-> WaterCorrectedVec(o, i)]]

(* mutant: plus one half of the slope *)
CalcSac_PlusHalf(wcb, r) ==
    LET fit == Valid(wcb)
        n == Cardinality(fit)
        sx == SumOver(r, fit)
        sy == SumOver(wcb, fit)
        sxy == SumOver([k \in fit |-> r[k] * wcb[k]], fit)
        sxx == SumOver([k \in fit |-> r[k] * r[k]], fit)
        cov == n * sxy - sx * sy
        var == n * sxx - sx * sx
    IN IF n > 1 /\ var # 0 THEN (100 * cov) \div (2 * var) ELSE NaN

(* _calc_sac, one row: -0.5 times the least-squares slope of WCB against the cell range *)
(* over the valid cells, in hundredths of dB per metre; NaN with fewer than two valid    *)
(* cells, and NaN when the ranges have no variance (0/0)                                 *)
CalcSac(wcb, r) ==
    LET fit == Valid(wcb)
        n == Cardinality(fit)
        sx == SumOver(r, fit)
        sy == SumOver(wcb, fit)
        sxy == SumOver([k \in fit |-> r[k] * wcb[k]], fit)
        sxx == SumOver([k \in fit |-> r[k] * r[k]], fit)
        cov == n * sxy - sx * sy
        var == n * sxx - sx * sx
    IN IF n > 1 /\ var # 0 THEN -((100 * cov) \div (2 * var)) ELSE NaN

(* mutant: a row with one valid cell is not passed through *)
SingleCellWcbCorrection_Never(wcb, scb) == scb

(* _single_cell_wcb_correction, one row *)
SingleCellWcbCorrection(wcb, scb) == IF Cardinality(Valid(wcb)) = 1 THEN wcb ELSE scb

(* _calc_scb, one row *)
CalcScb(wcb, sac, r) ==
    SingleCellWcbCorrection(wcb,
        [k \in DOMAIN wcb |->
            IF wcb[k] = NaN \/ sac = NaN THEN NaN ELSE wcb[k] + (2 * sac * r[k]) \div 100])

SacVec(o) == [i \in 1..Len(o.wcb) |-> CalcSac(o.wcb[i].v, o.cell_range[i].v)]

(* _update_sediment_corrected_backscatter: reads the stored cell range and WCB *)
SedimentCorrectedFrame(o, sac) ==
    [i \in 1..Len(o.acoustic.rows) |->
        [t |-> o.acoustic.rows[i].t, v |-> CalcScb(o.wcb[i].v, sac[i], o.cell_range[i].v)]]

(* the end of _update_acoustic_data: pd.concat([mean_scb, sac_df]) stacks the MeanSCB *)
(* rows over the SAC rows                                                             *)
AcousticVariables(scb, sac) ==
    [cols |-> {"MeanSCB", "SAC"},
     rows |-> [i \in 1..Len(scb) |-> [t |-> scb[i].t,
                                      v |-> [c \in {"MeanSCB", "SAC"} |->
                                               IF c = "MeanSCB" THEN MeanSkipNa(scb[i].v) ELSE NaN]]]
              \o [i \in 1..Len(scb) |-> [t |-> scb[i].t,
                                         v |-> [c \in {"MeanSCB", "SAC"} |->
                                                  IF c = "SAC" THEN sac[i] ELSE NaN]]]]

(* the exception _update_acoustic_data raises for the state of o ("none" when it runs) *)
UpdateAcousticError(o) ==
    LET beam == o.proc.dict["Beam"]
    IN IF beam = PyStr("Avg") /\ o.config.dict["Number of Beams"].n = 0 THEN "ValueError"
       ELSE IF beam # PyStr("Avg") /\ beam.k # "int" THEN "AssertionError"
       ELSE IF "Temp" \notin o.acoustic.cols THEN "KeyError"
       ELSE IF o.config.dict["Frequency"].k \notin {"float", "inf", "nan"} THEN "AssertionError"
       ELSE IF "Vbeam" \notin o.acoustic.cols THEN "KeyError"
       ELSE "none"

(* _update_acoustic_data: the stages in order, each stored before the next one reads it *)
UpdateAcousticData(o) ==
    LET s1 == [o EXCEPT !.cell_range = CellRangeFrame(o)]
        s2 == [s1 EXCEPT !.mb = MeasuredBackscatterFrame(s1)]
        s3 == [s2 EXCEPT !.wcb = WaterCorrectedFrame(s2)]
        sac == SacVec(s3)
        s4 == [s3 EXCEPT !.scb = SedimentCorrectedFrame(s3, sac)]
    IN [obj |-> s4, acoustic_data |-> AcousticVariables(s4.scb, sac)]

(***************************************************************************)
(* ADVM acoustic data: the data manager.                                   *)
(***************************************************************************)
AdvmColumns ==
    {"Temp", "Vbeam"}
    \cup {CellCol(cell, kind, beam) : cell \in 1..3, kind \in {"SNR", "Amp"}, beam \in 1..2}

(* acoustic_data.filter(regex=_advm_columns_regex) *)
FilterAdvm(tb) ==
    [cols |-> tb.cols \cap AdvmColumns,
     rows |-> [i \in 1..Len(tb.rows) |->
                 [t |-> tb.rows[i].t,
                  v |-> [c \in tb.cols \cap AdvmColumns |-> tb.rows[i].v[c]]]]]

(* _get_acoustic_data_origin *)
GetAcousticDataOrigin(data_path) ==
    MkLedger(<<[variable |-> "MeanSCB", origin |-> data_path],
               [variable |-> "SAC", origin |-> data_path]>>)

(* the object after an _update_acoustic_data that raised: the stages stored before the raise *)
UpdateAcousticFailed(o) ==
    LET s1 == [o EXCEPT !.cell_range = CellRangeFrame(o)]
    IN IF UpdateAcousticError(o) \in {"ValueError"}
          \/ (UpdateAcousticError(o) = "AssertionError" /\ o.proc.dict["Beam"] # PyStr("Avg")
              /\ o.proc.dict["Beam"].k # "int")
       THEN s1
       ELSE [s1 EXCEPT !.mb = MeasuredBackscatterFrame(s1)]

(* the attributes ADVMSedimentAcousticData.__init__ sets before the pipeline runs *)
AdvmBefore(config, acoustic_data) ==
    [NoObj EXCEPT !.kind = "ADVM", !.acoustic = FilterAdvm(acoustic_data), !.config = config,
                  !.proc = NewProcParam(config.dict["Number of Cells"].n)]

(* ADVMSedimentAcousticData.__init__: the error raised ("none" when the object is built) *)
NewAdvmError(config_params, acoustic_data, data_origin) ==
    LET cfg == UpdateLoop(NewConfigParam, config_params)
    IN IF cfg.err # "none" THEN cfg.err
       ELSE IF UpdateAcousticError(AdvmBefore(cfg.store, acoustic_data)) # "none"
            THEN UpdateAcousticError(AdvmBefore(cfg.store, acoustic_data))
       ELSE CheckOrigin(UpdateAcousticData(AdvmBefore(cfg.store, acoustic_data)).acoustic_data,
                        data_origin)

(* ADVMSedimentAcousticData.__init__: the object built *)
NewAdvm(config_params, acoustic_data, data_origin) ==
    LET cfg == UpdateLoop(NewConfigParam, config_params)
        done == UpdateAcousticData(AdvmBefore(cfg.store, acoustic_data))
    IN [done.obj EXCEPT !.alive = TRUE, !.data = done.acoustic_data, !.origin = data_origin]

(* the loop of set_proc_params: self._proc_param[key] = proc_params[key], key by key *)
RECURSIVE SetProcLoop(_, _)
SetProcLoop(p, entries) ==
    IF entries = <<>> THEN [store |-> p, err |-> "none"]
    ELSE IF SetItemError(p, entries[1].key, entries[1].value) # "none"
         THEN [store |-> p, err |-> SetItemError(p, entries[1].key, entries[1].value)]
    ELSE SetProcLoop(SetItemResult(p, entries[1].key, entries[1].value), Tail(entries))

(* ADVMSedimentAcousticData.set_proc_params: the error raised *)
SetProcParamsError(o, proc_params) ==
    LET loop == SetProcLoop(o.proc, proc_params)
    IN IF loop.err # "none" THEN loop.err
       ELSE UpdateAcousticError([o EXCEPT !.proc = loop.store])

(* ADVMSedimentAcousticData.set_proc_params: the object after the call *)
SetProcParamsResult(o, proc_params) ==
    LET loop == SetProcLoop(o.proc, proc_params)
        set == [o EXCEPT !.proc = loop.store]
    IN IF loop.err # "none" THEN set
       ELSE IF UpdateAcousticError(set) # "none" THEN UpdateAcousticFailed(set)
       ELSE [UpdateAcousticData(set).obj EXCEPT !.data = UpdateAcousticData(set).acoustic_data]

(* Python's == on two parameter values: NaN equals nothing, numbers compare by value *)
PyEq(a, b) ==
    IF a.k = "nan" \/ b.k = "nan" THEN FALSE
    ELSE IF IsNumber(a) /\ IsNumber(b) THEN Hundredths(a) = Hundredths(b)
    ELSE a = b

(* ADVMConfigParam.is_compatible *)
IsCompatible(self, other) ==
    \A key \in {"Frequency", "Slant Angle", "Blanking Distance", "Cell Size", "Number of Cells"} :
        PyEq(self.dict[key], other.dict[key])

(* get_proc_params(): the dictionary of the processing parameters, in the order of its keys *)
ProcKeyOrder ==
    <<"Beam", "Backscatter Values", "Intensity Scale Factor", "Minimum Cell Mid-Point Distance",
      "Maximum Cell Mid-Point Distance", "Minimum Number of Cells", "Minimum Vbeam",
      "Near Field Correction", "WCB Profile Adjustment">>

GetProcParams(o) ==
    [i \in DOMAIN ProcKeyOrder |-> [key |-> ProcKeyOrder[i], value |-> o.proc.dict[ProcKeyOrder[i]]]]

(* the merge of the raw acoustic frames in ADVMSedimentAcousticData.add_data *)
MergeAcoustic(self, other, keep) ==
    LET both == Concat(self.acoustic, other.acoustic)
    IN IF keep = "True" THEN GroupFirst(both) ELSE GroupLast(both)

(***************************************************************************)
(* Constituent data and the surrogate data it holds.                       *)
(***************************************************************************)
(* the object that is the ConstituentData; the surrogate data sets live in Slots *)
Constituent == 3

Objects == Slots \cup {Constituent}

(* the order of the columns of a table *)
ColumnOrder(cols) == SelectSeq(<<"Q", "T", "SSC">>, LAMBDA c : c \in cols)

(* ConstituentData.__init__ without surrogate data (after _check_origin has passed) *)
NewConstituentData(data, origin) ==
    [NewDataManager(data, origin) EXCEPT !.kind = "ConstituentData"]

(* SurrogateData.__init__ (after _check_origin has passed) *)
NewSurrogateData(data, origin) ==
    [NewDataManager(data, origin) EXCEPT !.kind = "SurrogateData"]

(* mutant: the window is closed at its lower end *)
GetAvgVariableObservation_Closed(m, variable_name, time, avg_window) ==
    LET time_window == {i \in 1..Len(m.data.rows) :
                           /\ m.data.rows[i].v[variable_name] # NaN
                           /\ time - avg_window <= m.data.rows[i].t
                           /\ m.data.rows[i].t <= time + avg_window}
    IN IF time_window = {} THEN NaN
       ELSE SumOver([i \in time_window |-> m.data.rows[i].v[variable_name]], time_window)
               \div Cardinality(time_window)

(* DataManager._check_variable_name *)
CheckVariableName(m, variable_name) ==
    IF variable_name \in GetVariableNames(m) THEN "none" ELSE "ValueError"

(* SurrogateData.get_avg_variable_observation: the mean of the observations of the   *)
(* variable in the window (time - avg_window, time + avg_window], NaN when it is empty *)
GetAvgVariableObservation(m, variable_name, time, avg_window) ==
    LET time_window == {i \in 1..Len(m.data.rows) :
                           /\ m.data.rows[i].v[variable_name] # NaN
                           /\ time - avg_window < m.data.rows[i].t
                           /\ m.data.rows[i].t <= time + avg_window}
    IN IF time_window = {} THEN NaN
       ELSE SumOver([i \in time_window |-> m.data.rows[i].v[variable_name]], time_window)
               \div Cardinality(time_window)

(* the rows [variable, origin] update_data collects, variable by variable *)
RECURSIVE SurrogateVariableOrigin(_, _)
SurrogateVariableOrigin(m, names) ==
    IF names = <<>> THEN <<>>
    ELSE GetVariableOrigin(m, Head(names)) \o SurrogateVariableOrigin(m, Tail(names))

(* the table update_data builds: the averaged surrogate variables at the index of _data *)
AveragedSurrogateData(self, surrogate) ==
    [cols |-> GetVariableNames(surrogate),
     rows |-> [i \in 1..Len(self.data.rows) |->
                 [t |-> self.data.rows[i].t,
                  v |-> [variable \in GetVariableNames(surrogate) |->
                           GetAvgVariableObservation(surrogate, variable, self.data.rows[i].t,
                                                     self.window[variable])]]]]

(* the data manager update_data builds from the averaged table and the collected origins *)
AveragedManager(self, surrogate) ==
    NewDataManager(AveragedSurrogateData(self, surrogate),
                   MkLedger(SurrogateVariableOrigin(surrogate,
                                                    ColumnOrder(GetVariableNames(surrogate)))))

(* ConstituentData.update_data: the error raised ("none" when it runs) *)
UpdateDataError(self, surrogate) ==
    IF CheckOrigin(AveragedManager(self, surrogate).data,
                   AveragedManager(self, surrogate).origin) # "none"
    THEN CheckOrigin(AveragedManager(self, surrogate).data, AveragedManager(self, surrogate).origin)
    ELSE AddDataError(self, AveragedManager(self, surrogate), "False")

(* ConstituentData.update_data: the constituent data after the call *)
UpdateDataResult(self, surrogate) ==
    IF UpdateDataError(self, surrogate) # "none" THEN self
    ELSE AddDataResult(self, AveragedManager(self, surrogate), "False")

(* add_surrogate_data: a window of 0 for every surrogate variable that has none *)
WithWindows(window, names) ==
    [variable \in Vars |->
        IF variable \in names /\ window[variable] = NoWindow THEN 0 ELSE window[variable]]

(***************************************************************************)
(* Inputs.                                                                 *)
(***************************************************************************)
KeepFlags == {"None", "True", "False"}

(* the time-sorted tables over the columns C and labels I with cells from V *)
TablesOver(C, I, V) ==
    LET s == SortSet(I)
    IN {[cols |-> C,
         rows |-> [i \in 1..Len(s) |-> [t |-> s[i], v |-> [c \in C |-> f[<<s[i], c>>]]]]] :
            f \in [I \X C -> V]}

FreshTables(val) ==
    UNION {TablesOver(C, I, {NaN, val}) :
              C \in (SUBSET Vars) \ {{}}, I \in (SUBSET Times) \ {{}}}

(* the one-row tables: every column observed at the first time *)
SimpleTables(val) == UNION {TablesOver(C, {1}, {val}) : C \in (SUBSET Vars) \ {{}}}

(* the ledger read_tab_delimited_data builds: every column of the file, from that file *)
FileLedger(data, file) ==
    LET s == CHOOSE q \in [1..Cardinality(data.cols) -> data.cols] : Range(q) = data.cols
    IN MkLedger([i \in DOMAIN s |-> [variable |-> s[i], origin |-> file]])

FileOf(s) == IF s = 1 THEN "f1" ELSE "f2"

LedgerRows == [variable : Vars, origin : Origins]

Ledgers ==
    {MkLedger(r) : r \in SeqsUpTo(LedgerRows, MaxLedger)}
    \cup {[frame |-> TRUE, keys |-> <<"variable", "source">>, rows |-> <<>>],
          [frame |-> FALSE, keys |-> <<>>, rows |-> <<>>]}

(* the values offered for a key of the processing parameters, accepted and rejected ones *)
ProcCandidates(key) ==
    CASE key = "Beam" -> {PyInt(1), PyInt(2), PyStr("Avg"), PyInt(3)}
      [] key = "Backscatter Values" -> {PyStr("SNR"), PyStr("Amp"), PyStr("bad")}
      [] key = "Intensity Scale Factor" -> {PyFloat(43), PyInt(0), PyStr("bad")}
      [] key = "Minimum Cell Mid-Point Distance" -> {PyInf(-1), PyStr("bad")}
      [] key = "Maximum Cell Mid-Point Distance" -> {PyInf(1), PyInt(2), PyStr("bad")}
      [] key = "Minimum Number of Cells" -> {PyInt(n) : n \in 0..(StoreCells + 1)}
      [] key = "Minimum Vbeam" -> {PyInf(-1), PyInt(1)}
      [] key = "Near Field Correction" -> {PyBool(TRUE), PyBool(FALSE), PyInt(1)}
      [] key = "WCB Profile Adjustment" -> {PyBool(TRUE), PyStr("bad")}
      [] key = "Moving Average Span" -> {PyInt(1)}
      [] OTHER -> {PyInt(1)}

ProcKeys == DOMAIN ProcDefaults

OfferedKeys == ProcKeys \cup {"Moving Average Span", "Bogus"}

(* the entries offered to update(): one accepted and one rejected value for some keys *)
UpdateEntries ==
    {[key |-> "Beam", value |-> PyInt(2)], [key |-> "Beam", value |-> PyInt(3)],
     [key |-> "Backscatter Values", value |-> PyStr("Amp")],
     [key |-> "Minimum Number of Cells", value |-> PyInt(1)],
     [key |-> "Minimum Number of Cells", value |-> PyInt(0)],
     [key |-> "Near Field Correction", value |-> PyBool(FALSE)],
     [key |-> "Near Field Correction", value |-> PyInt(1)],
     [key |-> "Bogus", value |-> PyInt(1)]}

(* the dictionaries offered to update(): a dictionary holds a key once *)
UpdateMappings ==
    {m \in SeqsUpTo(UpdateEntries, MaxUpdate) :
        \A i \in DOMAIN m, j \in DOMAIN m : i # j => m[i].key # m[j].key}

(* a file read by read_tab_delimited_data, or a one-row table with any ledger *)
ConstructInputs(s) ==
    {<<data, FileLedger(data, FileOf(s))>> : data \in FreshTables(s)}
    \cup (SimpleTables(s) \X Ledgers)

(* the configuration dictionaries offered: a 3000 kHz instrument with three cells of 2 m, *)
(* and the same instrument with cells of 1 m                                              *)
ConfigDict(cell_size) ==
    <<[key |-> "Frequency", value |-> PyFloat(300000)],
      [key |-> "Effective Transducer Diameter", value |-> PyFloat(3)],
      [key |-> "Beam Orientation", value |-> PyStr("Horizontal")],
      [key |-> "Slant Angle", value |-> PyFloat(0)],
      [key |-> "Blanking Distance", value |-> PyFloat(0)],
      [key |-> "Cell Size", value |-> PyFloat(cell_size)],
      [key |-> "Number of Cells", value |-> PyInt(3)],
      [key |-> "Number of Beams", value |-> PyInt(2)]>>

ConfigInputs == {ConfigDict(200), ConfigDict(100)}

(* a dictionary without 'Frequency' (the parameter keeps its initial NaN), and one whose *)
(* 'Frequency' is the int 3000 instead of the float 3000.0                              *)
ConfigNoFrequency == SelectSeq(ConfigDict(200), LAMBDA e : e.key # "Frequency")

ConfigIntFrequency ==
    <<[key |-> "Frequency", value |-> PyInt(3000)]>> \o ConfigNoFrequency

(* an instrument whose cells have no length: every cell is 1 m from the transducer *)
ConfigZeroCellSize ==
    [i \in DOMAIN ConfigDict(0) |->
        IF ConfigDict(0)[i].key = "Blanking Distance"
        THEN [key |-> "Blanking Distance", value |-> PyFloat(100)]
        ELSE ConfigDict(0)[i]]

(* a row of an acoustic file: SNR in hundredths of dB and amplitude in hundredths of *)
(* counts, falling by `fall` per cell; the second beam reads 2 dB lower              *)
AcousticRow(t, first, fall) ==
    [t |-> t,
     v |-> [c \in AdvmColumns |->
              CASE c = "Temp" -> 20
                [] c = "Vbeam" -> 200
                [] OTHER ->
                     LET cell == CHOOSE k \in 1..3 :
                                    \E kind \in {"SNR", "Amp"}, b \in 1..2 : CellCol(k, kind, b) = c
                         beam == CHOOSE b \in 1..2 :
                                    \E kind \in {"SNR", "Amp"} : CellCol(cell, kind, b) = c
                         amp == \E b \in 1..2 : CellCol(cell, "Amp", b) = c
                     IN (IF amp THEN 2 ELSE 1) * (first - (cell - 1) * fall) - (beam - 1) * 200]]

(* the profile a file of slot s holds at time t: a flat profile or a steep one *)
AcousticRowOf(s, t) ==
    IF (s + t) % 2 = 0 THEN AcousticRow(t, 5000 + 100 * s, 1000)
    ELSE AcousticRow(t, 9000 + 100 * s, 3500)

AcousticTables(s) ==
    {[cols |-> AdvmColumns,
      rows |-> [i \in 1..Cardinality(I) |-> AcousticRowOf(s, SortSet(I)[i])]] :
        I \in (SUBSET Times) \ {{}}}

(* the constructor arguments offered to slot s: every table with the two full dictionaries, *)
(* the table of all times with the other three                                             *)
AdvmInputs(s) ==
    (ConfigInputs \X AcousticTables(s))
    \cup {<<config_params,
            [cols |-> AdvmColumns,
             rows |-> [i \in 1..Cardinality(Times) |-> AcousticRowOf(s, SortSet(Times)[i])]]>> :
             config_params \in {ConfigNoFrequency, ConfigIntFrequency, ConfigZeroCellSize}}

AcousticLedgers(s) ==
    {GetAcousticDataOrigin(FileOf(s)),
     MkLedger(<<[variable |-> "MeanSCB", origin |-> FileOf(s)]>>)}

(* the dictionaries offered to set_proc_params *)
ProcParamInputs ==
    {<<[key |-> "Beam", value |-> PyInt(2)]>>,
     <<[key |-> "Backscatter Values", value |-> PyStr("Amp")]>>,
     <<[key |-> "WCB Profile Adjustment", value |-> PyBool(FALSE)],
       [key |-> "Beam", value |-> PyInt(1)]>>,
     <<[key |-> "Beam", value |-> PyStr("Avg")],
       [key |-> "Minimum Number of Cells", value |-> PyInt(0)]>>,
     <<[key |-> "Bogus", value |-> PyInt(1)],
       [key |-> "Backscatter Values", value |-> PyStr("SNR")]>>}

(* the constituent tables offered: one observed variable at some of the times *)
ConstituentTables ==
    {[cols |-> {"SSC"},
      rows |-> [i \in 1..Cardinality(I) |->
                  [t |-> SortSet(I)[i], v |-> [c \in {"SSC"} |-> 600 + 6 * SortSet(I)[i]]]]] :
        I \in (SUBSET Times) \ {{}}}

(* the value the file of slot s holds for column c at time t *)
SurrogateValue(s, t, c) == 60 * s + 6 * t + (IF c = "T" THEN 300 ELSE 0)

(* the surrogate tables offered to slot s: discharge at every time with some of the *)
(* observations missing, or discharge and temperature at the first time             *)
SurrogateTables(s) ==
    {[cols |-> {"Q"},
      rows |-> [i \in 1..Cardinality(Times) |->
                  [t |-> SortSet(Times)[i],
                   v |-> [c \in {"Q"} |-> IF SortSet(Times)[i] \in P
                                          THEN SurrogateValue(s, SortSet(Times)[i], c)
                                          ELSE NaN]]]] :
        P \in SUBSET Times}
    \cup {[cols |-> {"Q", "T"},
           rows |-> <<[t |-> 1, v |-> [c \in {"Q", "T"} |-> SurrogateValue(s, 1, c)]]>>]}

(* the half-widths offered to set_surrogate_avg_window *)
MaxWindow == 1

Windows == 0..MaxWindow

(***************************************************************************)
(* Rating models (src/model.py).  A model is a record; cls is its class:   *)
(* "simple", "multiple", "complex" or "compound".  Python's None is the    *)
(* string "None".  The statsmodels fit is kept as the formula handed to    *)
(* smf.ols and the observations it is fitted on.                           *)
(***************************************************************************)
(* np.inf; -np.inf is -Inf *)
Inf == 999999

(* RatingModel._transform_variable_names.keys() *)
Transforms == {"None", "log", "log10", "pow2"}

NoFit == [fitted |-> FALSE, formula |-> [response |-> <<>>, explanatory |-> <<>>],
          subset |-> {}, segments |-> <<>>]

NoModel ==
    [cls |-> "none", data_manager |-> NoObj, response_variable |-> "None",
     explanatory_variables |-> <<>>, excluded_observations |-> <<>>,
     model_dataset |-> EmptyTable, variable_transform |-> <<>>,
     explanatory_variable_transform |-> <<>>,
     breakpoints |-> [array |-> TRUE, values |-> <<>>], model |-> NoFit]

(* mutant: the identity transform is not recognised *)
CheckTransform_NoIdentity(transform) ==
    IF transform \in Transforms \ {"None"} THEN "none" ELSE "InvalidVariableTransformError"

(* RatingModel._check_transform *)
CheckTransform(transform) ==
    IF transform \in Transforms THEN "none" ELSE "InvalidVariableTransformError"

(* RatingModel._check_variable_names *)
CheckVariableNames(self, variable_names) ==
    IF \A i \in DOMAIN variable_names :
           variable_names[i] \in GetVariableNames(self.data_manager)
    THEN "none" ELSE "InvalidModelVariableNameError"

(* DataManager.get_variable: the column of the variable without its missing observations *)
GetVariable(m, variable_name) ==
    [cols |-> {variable_name},
     rows |-> [i \in DOMAIN SelectSeq(m.data.rows, LAMBDA r : r.v[variable_name] # NaN) |->
                 LET r == SelectSeq(m.data.rows, LAMBDA q : q.v[variable_name] # NaN)[i]
                 IN [t |-> r.t, v |-> [c \in {variable_name} |-> r.v[c]]]]]

(* RatingModel._create_model_dataset: the observations of the response variable, with *)
(* the explanatory variables aligned on their index                                    *)
CreateModelDataset(self) ==
    LET C == {self.response_variable} \cup Range(self.explanatory_variables)
        response == GetVariable(self.data_manager, self.response_variable)
    IN [self EXCEPT !.model_dataset =
          [cols |-> C,
           rows |-> [i \in DOMAIN response.rows |->
                       [t |-> response.rows[i].t,
                        v |-> [c \in C |-> Cell(self.data_manager.data,
                                                response.rows[i].t, c)]]]]]

(* RatingModel.get_model_dataset: a copy of the model dataset with the columns Missing *)
(* (isnull().any(axis=1)) and Excluded (index.isin(excluded)); a frame of shape (0, 0)  *)
(* gets no column                                                                       *)
GetModelDataset(self) ==
    IF self.model_dataset.rows = <<>> /\ self.model_dataset.cols = {} THEN <<>>
    ELSE [i \in DOMAIN self.model_dataset.rows |->
            [t |-> self.model_dataset.rows[i].t,
             v |-> self.model_dataset.rows[i].v,
             Missing |-> \E c \in self.model_dataset.cols :
                            self.model_dataset.rows[i].v[c] = NaN,
             Excluded |-> self.model_dataset.rows[i].t \in Range(self.excluded_observations)]]

(* RatingModel._get_variable_transform: the term of a formula *)
GetVariableTransform(variable, transform) == [variable |-> variable, transform |-> transform]

(* get_model_formula of the three OLS classes; reading _explanatory_variables[0] of an *)
(* empty tuple raises IndexError                                                       *)
GetModelFormula(self) ==
    IF self.explanatory_variables = <<>>
    THEN [err |-> "IndexError", formula |-> NoFit.formula]
    ELSE [err |-> "none",
          formula |->
            [response |-> <<GetVariableTransform(self.response_variable,
                               self.variable_transform[self.response_variable])>>,
             explanatory |->
               IF self.cls = "complex"
               THEN [k \in DOMAIN self.explanatory_variable_transform |->
                       GetVariableTransform(self.explanatory_variables[1],
                                            self.explanatory_variable_transform[k])]
               ELSE [k \in (IF self.cls = "simple" THEN {1}
                            ELSE DOMAIN self.explanatory_variables) |->
                       GetVariableTransform(self.explanatory_variables[k],
                          self.variable_transform[self.explanatory_variables[k]])]]]

(* OLSModel._create_model: smf.ols on the observations that are not excluded, *)
(* missing='drop'                                                              *)
OLSCreateModel(self) ==
    IF GetModelFormula(self).err # "none"
    THEN [err |-> GetModelFormula(self).err, self |-> self]
    ELSE [err |-> "none",
          self |-> [self EXCEPT !.model =
             [NoFit EXCEPT
                !.fitted = TRUE,
                !.formula = GetModelFormula(self).formula,
                !.subset = {self.model_dataset.rows[i].t :
                              i \in {j \in DOMAIN self.model_dataset.rows :
                                 /\ self.model_dataset.rows[j].t
                                       \notin Range(self.excluded_observations)
                                 /\ \A c \in self.model_dataset.cols :
                                       self.model_dataset.rows[j].v[c] # NaN}}]]]

(* Index.sort_values *)
RECURSIVE SortValues(_)
SortValues(s) ==
    IF s = <<>> THEN <<>>
    ELSE LET m == CHOOSE i \in DOMAIN s : \A j \in DOMAIN s : s[i] <= s[j]
         IN <<s[m]>> \o SortValues(SubSeq(s, 1, m - 1) \o SubSeq(s, m + 1, Len(s)))

(* RatingModel.__init__: the error it raises *)
NewRatingModelError(data_manager, response_variable) ==
    IF response_variable # "None" /\ response_variable \notin GetVariableNames(data_manager)
    THEN "InvalidModelVariableNameError" ELSE "none"

(* RatingModel.__init__ *)
NewRatingModel(cls, data_manager, response_variable) ==
    [NoModel EXCEPT
       !.cls = cls,
       !.data_manager = data_manager,
       !.response_variable =
          IF response_variable = "None"
          THEN ColumnOrder(GetVariableNames(data_manager))[1] ELSE response_variable,
       !.explanatory_variables = Tail(ColumnOrder(GetVariableNames(data_manager))),
       !.variable_transform = [variable \in GetVariableNames(data_manager) |-> "None"]]

(* self._create_model() of the model's class; each call returns the error raised *)
(* and the model as the call leaves it                                           *)
RECURSIVE CreateModel(_)

(* RatingModel.update_model *)
UpdateModel(self) == CreateModel(CreateModelDataset(self))

(* mutant: the new observations are appended and sorted, duplicates are kept *)
ExcludeObservation_KeepDuplicates(self, observation_time) ==
    CreateModel([self EXCEPT !.excluded_observations = SortValues(@ \o observation_time)])

(* RatingModel.exclude_observation *)
ExcludeObservation(self, observation_time) ==
    CreateModel([self EXCEPT !.excluded_observations =
                    DropDuplicates(SortValues(@ \o observation_time))])

(* RatingModel.include_observation *)
IncludeObservation(self, observation_time) ==
    CreateModel([self EXCEPT !.excluded_observations =
                    SelectSeq(@, LAMBDA t : t \notin Range(observation_time))])

(* RatingModel.include_all_observations *)
IncludeAllObservations(self) ==
    IF IncludeObservation(self, self.excluded_observations).err # "none"
    THEN IncludeObservation(self, self.excluded_observations)
    ELSE CreateModel(IncludeObservation(self, self.excluded_observations).self)

(* mutant: the response variable is assigned before the name is checked *)
SetResponseVariable_AssignFirst(self, response_variable) ==
    IF CheckVariableNames(self, <<response_variable>>) # "none"
    THEN [err |-> CheckVariableNames(self, <<response_variable>>),
          self |-> [self EXCEPT !.response_variable = response_variable]]
    ELSE UpdateModel([self EXCEPT !.response_variable = response_variable])

(* RatingModel.set_response_variable *)
SetResponseVariable(self, response_variable) ==
    IF CheckVariableNames(self, <<response_variable>>) # "none"
    THEN [err |-> CheckVariableNames(self, <<response_variable>>), self |-> self]
    ELSE UpdateModel([self EXCEPT !.response_variable = response_variable])

(* set_explanatory_variable of SimpleLinearRatingModel, ComplexRatingModel and *)
(* CompoundRatingModel                                                         *)
SetExplanatoryVariable(self, variable) ==
    IF CheckVariableNames(self, <<variable>>) # "none"
    THEN [err |-> CheckVariableNames(self, <<variable>>), self |-> self]
    ELSE UpdateModel([self EXCEPT !.explanatory_variables = <<variable>>])

(* MultipleLinearRatingModel.set_explanatory_variables *)
SetExplanatoryVariables(self, variables) ==
    IF CheckVariableNames(self, variables) # "none"
    THEN [err |-> CheckVariableNames(self, variables), self |-> self]
    ELSE UpdateModel([self EXCEPT !.explanatory_variables = variables])

(* SimpleLinearRatingModel.transform_explanatory_variable *)
TransformExplanatoryVariable(self, transform) ==
    IF CheckTransform(transform) # "none"
    THEN [err |-> CheckTransform(transform), self |-> self]
    ELSE CreateModel([self EXCEPT
                        !.variable_transform[self.explanatory_variables[1]] = transform])

(* MultipleLinearRatingModel.transform_explanatory_variable *)
TransformExplanatoryVariableOf(self, explanatory_variable, transform) ==
    IF CheckTransform(transform) # "none"
    THEN [err |-> CheckTransform(transform), self |-> self]
    ELSE IF CheckVariableNames(self, <<explanatory_variable>>) # "none"
    THEN [err |-> CheckVariableNames(self, <<explanatory_variable>>), self |-> self]
    ELSE CreateModel([self EXCEPT !.variable_transform[explanatory_variable] = transform])

(* the constructors of SimpleLinearRatingModel, ComplexRatingModel and              *)
(* CompoundRatingModel: RatingModel.__init__, the attributes of the class, then the *)
(* explanatory variable given or the second variable of the data manager            *)
NewSingleVariableModel(cls, data_manager, response_variable, explanatory_variable) ==
    IF NewRatingModelError(data_manager, response_variable) # "none"
    THEN [err |-> NewRatingModelError(data_manager, response_variable), self |-> NoModel]
    ELSE IF explanatory_variable = "None" /\ Cardinality(GetVariableNames(data_manager)) < 2
    THEN [err |-> "IndexError", self |-> NoModel]
    ELSE SetExplanatoryVariable(
            [NewRatingModel(cls, data_manager, response_variable) EXCEPT
                !.explanatory_variable_transform =
                   IF cls = "simple" THEN <<>> ELSE <<"None">>,
                !.breakpoints = [array |-> TRUE,
                                 values |-> IF cls = "compound" THEN <<-Inf, Inf>> ELSE <<>>]],
            IF explanatory_variable = "None"
            THEN ColumnOrder(GetVariableNames(data_manager))[2] ELSE explanatory_variable)

(* SimpleLinearRatingModel.__init__ *)
NewSimpleLinearRatingModel(data_manager, response_variable, explanatory_variable) ==
    NewSingleVariableModel("simple", data_manager, response_variable, explanatory_variable)

(* ComplexRatingModel.__init__ *)
NewComplexRatingModel(data_manager, response_variable, explanatory_variable) ==
    NewSingleVariableModel("complex", data_manager, response_variable, explanatory_variable)

(* CompoundRatingModel.__init__ *)
NewCompoundRatingModel(data_manager, response_variable, explanatory_variable) ==
    NewSingleVariableModel("compound", data_manager, response_variable, explanatory_variable)

(* MultipleLinearRatingModel.__init__: an empty list of explanatory variables stands *)
(* for the default, every variable of the data manager after the first               *)
NewMultipleLinearRatingModel(data_manager, response_variable, explanatory_variables) ==
    IF NewRatingModelError(data_manager, response_variable) # "none"
    THEN [err |-> NewRatingModelError(data_manager, response_variable), self |-> NoModel]
    ELSE SetExplanatoryVariables(
            NewRatingModel("multiple", data_manager, response_variable),
            IF explanatory_variables = <<>>
            THEN Tail(ColumnOrder(GetVariableNames(data_manager)))
            ELSE explanatory_variables)

(* the transforms one complex model holds at most *)
MaxTransforms == 2

(* the elements the breakpoint array holds at most *)
MaxBreakpoints == 4

(* ComplexRatingModel.add_explanatory_var_transform *)
ComplexAddExplanatoryVarTransform(self, transform) ==
    IF CheckTransform(transform) # "none"
    THEN [err |-> CheckTransform(transform), self |-> self]
    ELSE CreateModel([self EXCEPT !.explanatory_variable_transform = Append(@, transform)])

(* ComplexRatingModel.reset_explanatory_var_transform *)
ComplexResetExplanatoryVarTransform(self) ==
    CreateModel([self EXCEPT !.explanatory_variable_transform = <<"None">>])

(* CompoundRatingModel.get_number_of_segments *)
GetNumberOfSegments(self) == Len(self.breakpoints.values) - 1

(* mutant: a segment owns the values above its lower bound, up to and including its upper *)
SegmentRangeIndex_UpperClosed(x, lower_bound, upper_bound) ==
    x # NaN /\ x > lower_bound /\ x <= upper_bound

(* (x >= lower_bound) & (x < upper_bound); a comparison with NaN is False *)
SegmentRangeIndex(x, lower_bound, upper_bound) ==
    x # NaN /\ x >= lower_bound /\ x < upper_bound

(* the rows of a table whose explanatory value lies in segment i (1-based) *)
SegmentRows(self, tb, i) ==
    [cols |-> tb.cols,
     rows |-> SelectSeq(tb.rows,
                 LAMBDA r : SegmentRangeIndex(r.v[self.explanatory_variables[1]],
                                              self.breakpoints.values[i],
                                              self.breakpoints.values[i + 1]))]

(* RatingModel.transform_response_variable, as the segment models run it *)
BaseTransformResponseVariable(self, transform) ==
    IF CheckTransform(transform) # "none"
    THEN [err |-> CheckTransform(transform), self |-> self]
    ELSE CreateModel([self EXCEPT !.variable_transform[self.response_variable] = transform])

(* one pass of the loop of CompoundRatingModel._create_model: the complex model of *)
(* segment i, with the exclusions and the response transform of the compound model *)
SegmentModel(self, i) ==
    BaseTransformResponseVariable(
       ExcludeObservation(
          NewComplexRatingModel(
             NewDataManager(SegmentRows(self, self.model_dataset, i),
                            MkLedger(GetVariableOrigin(self.data_manager,
                                                       self.response_variable)
                                     \o GetVariableOrigin(self.data_manager,
                                                          self.explanatory_variables[1]))),
             self.response_variable, self.explanatory_variables[1]).self,
          self.excluded_observations).self,
       self.variable_transform[self.response_variable])

(* CompoundRatingModel._create_model *)
CompoundCreateModel(self) ==
    [err |-> "none",
     self |-> [self EXCEPT !.model =
                  [NoFit EXCEPT !.fitted = TRUE,
                                !.segments = [i \in 1..GetNumberOfSegments(self) |->
                                                SegmentModel(self, i).self]]]]

CreateModel(self) ==
    IF self.cls = "compound" THEN CompoundCreateModel(self) ELSE OLSCreateModel(self)

(* CompoundRatingModel._check_segment_number: "not 0 < n and n <= len" is *)
(* "(not 0 < n) and (n <= len)"                                           *)
CheckSegmentNumber(self, segment_number) ==
    IF ~(0 < segment_number) /\ segment_number <= Len(self.model.segments)
    THEN "ValueError" ELSE "none"

(* CompoundRatingModel.reset_explanatory_var_transform() *)
ResetExplanatoryVarTransform(self) ==
    [self EXCEPT !.model.segments =
        [i \in DOMAIN @ |-> ComplexResetExplanatoryVarTransform(@[i]).self]]

(* CompoundRatingModel.add_explanatory_var_transform; segment 0 stands for None *)
AddExplanatoryVarTransform(self, transform, segment) ==
    IF CheckTransform(transform) # "none"
    THEN [err |-> CheckTransform(transform), self |-> self]
    ELSE IF segment # 0
    THEN IF CheckSegmentNumber(self, segment) # "none"
         THEN [err |-> CheckSegmentNumber(self, segment), self |-> self]
         ELSE IF segment > Len(self.model.segments)
         THEN [err |-> "IndexError", self |-> self]
         ELSE [err |-> "none",
               self |-> [self EXCEPT !.model.segments[segment] =
                            ComplexAddExplanatoryVarTransform(@, transform).self]]
    ELSE [err |-> "none",
          self |-> [self EXCEPT !.model.segments =
                       [i \in DOMAIN @ |->
                          ComplexAddExplanatoryVarTransform(@[i], transform).self]]]

(* ComplexRatingModel.remove_explanatory_var_transform: list.remove takes the first *)
(* occurrence out; an emptied list gets None                                        *)
ComplexRemoveExplanatoryVarTransform(self, transform) ==
    LET list == self.explanatory_variable_transform
        first == CHOOSE k \in DOMAIN list : list[k] = transform /\ \A j \in 1..(k - 1) : list[j] # transform
        removed == SubSeq(list, 1, first - 1) \o SubSeq(list, first + 1, Len(list))
    IN CreateModel([self EXCEPT !.explanatory_variable_transform =
                      IF transform \notin Range(list) THEN list
                      ELSE IF removed = <<>> THEN <<"None">> ELSE removed])

(* "if segment:" then _check_segment_number(segment) and self._model[segment-1]: the *)
(* error of the segment argument; 0 stands for None and is never checked             *)
SegmentError(self, segment) ==
    IF segment = 0 THEN "none"
    ELSE IF CheckSegmentNumber(self, segment) # "none" THEN CheckSegmentNumber(self, segment)
    ELSE IF segment > Len(self.model.segments) THEN "IndexError"
    ELSE "none"

(* the segments a call with that segment argument works on *)
SegmentsOfCall(self, segment) ==
    IF segment = 0 THEN DOMAIN self.model.segments ELSE {segment}

(* CompoundRatingModel.remove_explanatory_var_transform *)
RemoveExplanatoryVarTransform(self, transform, segment) ==
    IF SegmentError(self, segment) # "none"
    THEN [err |-> SegmentError(self, segment), self |-> self]
    ELSE [err |-> "none",
          self |-> [self EXCEPT !.model.segments =
                       [i \in DOMAIN @ |->
                          IF i \in SegmentsOfCall(self, segment)
                          THEN ComplexRemoveExplanatoryVarTransform(@[i], transform).self
                          ELSE @[i]]]]

(* CompoundRatingModel.reset_explanatory_var_transform(segment) *)
ResetExplanatoryVarTransformOf(self, segment) ==
    IF SegmentError(self, segment) # "none"
    THEN [err |-> SegmentError(self, segment), self |-> self]
    ELSE [err |-> "none",
          self |-> [self EXCEPT !.model.segments =
                       [i \in DOMAIN @ |->
                          IF i \in SegmentsOfCall(self, segment)
                          THEN ComplexResetExplanatoryVarTransform(@[i]).self
                          ELSE @[i]]]]

(* CompoundRatingModel.get_model_formula(segment): the formula of the segment, or the *)
(* list of the formulas of all segments                                               *)
CompoundGetModelFormula(self, segment) ==
    IF SegmentError(self, segment) # "none"
    THEN [err |-> SegmentError(self, segment), formula |-> <<>>]
    ELSE [err |-> "none",
          formula |-> IF segment = 0
                      THEN [i \in DOMAIN self.model.segments |->
                              GetModelFormula(self.model.segments[i]).formula]
                      ELSE <<GetModelFormula(self.model.segments[segment]).formula>>]

(* CompoundRatingModel.transform_response_variable *)
CompoundTransformResponseVariable(self, transform) ==
    IF CheckTransform(transform) # "none"
    THEN [err |-> CheckTransform(transform), self |-> self]
    ELSE [err |-> "none",
          self |-> [self EXCEPT
                      !.variable_transform[self.response_variable] = transform,
                      !.model.segments =
                         [i \in DOMAIN @ |->
                            BaseTransformResponseVariable(@[i], transform).self]]]

(* transform_response_variable of the model's class *)
TransformResponseVariable(self, transform) ==
    IF self.cls = "compound" THEN CompoundTransformResponseVariable(self, transform)
    ELSE BaseTransformResponseVariable(self, transform)

(* CompoundRatingModel.add_breakpoint: np.append, the NaN dropped, np.sort *)
AddBreakpoint(self, new_breakpoint) ==
    CreateModel(ResetExplanatoryVarTransform(
       [self EXCEPT !.breakpoints =
           [array |-> TRUE,
            values |-> SortValues(SelectSeq(Append(@.values, new_breakpoint),
                                            LAMBDA b : b # NaN))]]))

(* the two appends of CompoundRatingModel.remove_breakpoint *)
WithInfinities(new_breakpoints) ==
    (new_breakpoints \o (IF Inf \notin Range(new_breakpoints) THEN <<Inf>> ELSE <<>>))
       \o (IF -Inf \notin Range(new_breakpoints) THEN <<-Inf>> ELSE <<>>)

(* CompoundRatingModel.remove_breakpoint.  On the list reset_breakpoints leaves,  *)
(* "self._breakpoints == breakpoint" is False, the subscript ~False is -1, the    *)
(* value read is the float inf and "np.inf not in <float>" raises TypeError.      *)
RemoveBreakpoint(self, breakpoint) ==
    IF ~self.breakpoints.array
    THEN [err |-> "TypeError", self |-> self]
    ELSE CreateModel(ResetExplanatoryVarTransform(
            [self EXCEPT !.breakpoints =
                [array |-> TRUE,
                 values |-> SortValues(WithInfinities(
                               SelectSeq(@.values, LAMBDA b : b # breakpoint)))]]))

(* CompoundRatingModel.reset_breakpoints: the breakpoints become a Python list *)
ResetBreakpoints(self) ==
    CreateModel(ResetExplanatoryVarTransform(
       [self EXCEPT !.breakpoints = [array |-> FALSE, values |-> <<-Inf, Inf>>]]))

(* CompoundRatingModel.predict_response_variable: the rows of the result, each with  *)
(* its index label and the segment whose model predicted it.  explanatory_data is a  *)
(* data manager, or NoObj for None.                                                  *)
PredictResponseVariable(self, explanatory_data) ==
    LET explanatory_df == IF explanatory_data.alive THEN explanatory_data.data
                          ELSE self.model_dataset
        SegmentPredicted(i) ==
            LET segment == SegmentRows(self, explanatory_df, i).rows
            IN [k \in DOMAIN segment |-> [t |-> segment[k].t, segment |-> i]]
        RECURSIVE Predicted(_)
        Predicted(n) == IF n = 0 THEN <<>> ELSE Predicted(n - 1) \o SegmentPredicted(n)
    IN IF self.explanatory_variables[1] \notin explanatory_df.cols
       THEN [err |-> "KeyError", predicted |-> <<>>]
       ELSE [err |-> "none", predicted |-> Predicted(GetNumberOfSegments(self))]

(***************************************************************************)
(* The transform functions of the rating models, in exact arithmetic on    *)
(* the numbers where they are exact: the integers, and the powers of e,    *)
(* EPower(n) standing for e^n.                                             *)
(***************************************************************************)
Real(n) == [k |-> "real", n |-> n, s |-> ""]

EPower(n) == IF n = 0 THEN Real(1) ELSE [k |-> "exp", n |-> n, s |-> ""]

(* the largest exponent of ten offered *)
MaxPowerOfTen == 3

RECURSIVE TenTo(_)
TenTo(n) == IF n = 0 THEN 1 ELSE 10 * TenTo(n - 1)

(* the integers whose logarithm, base e or ten, is an integer *)
HasExactLog(x) == x.k = "exp" \/ x = Real(1)

HasExactLog10(x) == x.k = "real" /\ \E n \in 0..MaxPowerOfTen : x.n = TenTo(n)

(* np.log: log(0) is -inf, the logarithm of a negative number is NaN *)
Log(x) ==
    IF x.k = "exp" THEN Real(x.n)
    ELSE IF x.k = "real" /\ x.n = 1 THEN Real(0)
    ELSE IF x.k = "real" /\ x.n = 0 THEN PyInf(-1)
    ELSE IF x.k = "inf" /\ x.n = 1 THEN PyInf(1)
    ELSE PyNaN

(* np.log10 *)
Log10(x) ==
    IF HasExactLog10(x) THEN Real(CHOOSE n \in 0..MaxPowerOfTen : x.n = TenTo(n))
    ELSE IF x.k = "real" /\ x.n = 0 THEN PyInf(-1)
    ELSE IF x.k = "inf" /\ x.n = 1 THEN PyInf(1)
    ELSE PyNaN

(* power(x, 2) *)
Power2(x) ==
    IF x.k = "real" THEN Real(x.n * x.n)
    ELSE IF x.k = "exp" THEN EPower(2 * x.n)
    ELSE IF x.k = "inf" THEN PyInf(1)
    ELSE PyNaN

(* np.exp *)
Exp(y) ==
    IF y.k = "real" THEN EPower(y.n)
    ELSE IF y.k = "inf" THEN (IF y.n = 1 THEN PyInf(1) ELSE Real(0))
    ELSE PyNaN

(* power(10, x) *)
PowerOfTen(y) ==
    IF y.k = "real" /\ y.n \in 0..MaxPowerOfTen THEN Real(TenTo(y.n))
    ELSE IF y.k = "inf" THEN (IF y.n = 1 THEN PyInf(1) ELSE Real(0))
    ELSE PyNaN

(* power(x, 1/2): the non-negative root, NaN for a negative number *)
PowerHalf(y) ==
    IF y.k = "real" /\ y.n >= 0 /\ \E r \in 0..y.n : r * r = y.n
    THEN Real(CHOOSE r \in 0..y.n : r * r = y.n)
    ELSE IF y.k = "exp" /\ y.n % 2 = 0 THEN EPower(y.n \div 2)
    ELSE IF y.k = "inf" /\ y.n = 1 THEN PyInf(1)
    ELSE PyNaN

(* RatingModel._transform_functions[transform](x) *)
TransformFunction(transform, x) ==
    CASE transform = "None" -> x
      [] transform = "log" -> Log(x)
      [] transform = "log10" -> Log10(x)
      [] transform = "pow2" -> Power2(x)

(* mutant: the inverse of log10 is the exponential *)
InverseTransformFunction_Log10AsExp(transform, y) ==
    CASE transform = "None" -> y
      [] transform = "log" -> Exp(y)
      [] transform = "log10" -> Exp(y)
      [] transform = "pow2" -> PowerHalf(y)

(* RatingModel._inverse_transform_functions[transform](y) *)
InverseTransformFunction(transform, y) ==
    CASE transform = "None" -> y
      [] transform = "log" -> Exp(y)
      [] transform = "log10" -> PowerOfTen(y)
      [] transform = "pow2" -> PowerHalf(y)

(***************************************************************************)
(* Inputs of the rating models.                                            *)
(***************************************************************************)
(* the index of the tables handed to the rating models *)
ModelTimes == 1..(MaxTime + 1)

(* discharge rises with time; temperature falls and its last observation is missing; *)
(* the first temperature is the second discharge                                     *)
ModelValue(t, c) ==
    IF c = "Q" THEN 2 * t + 1 ELSE IF t = MaxTime + 1 THEN NaN ELSE 7 - 2 * t

(* the data offered to a rating model: both variables, or discharge alone *)
ModelTables ==
    {[cols |-> C,
      rows |-> [i \in 1..Cardinality(ModelTimes) |->
                  [t |-> SortSet(ModelTimes)[i],
                   v |-> [c \in C |-> ModelValue(SortSet(ModelTimes)[i], c)]]]] :
       C \in {{"Q", "T"}, {"Q"}}}

(* the variable names offered, one of them in no table *)
ModelNames == {"Q", "T", "X"}

(* the lists offered to set_explanatory_variables *)
ModelNameLists == {<<>>, <<"Q">>, <<"T", "Q">>, <<"T", "X">>}

(* the transform tokens offered, one of them unrecognised *)
TransformTokens == Transforms \cup {"sqrt"}

(* the indexes offered to exclude_observation and include_observation *)
ObservationTimes == {<<1>>, <<2>>, <<2, 1>>, <<2, 2>>}

(* the values offered to add_breakpoint and remove_breakpoint *)
BreakpointValues == {ModelValue(1, "Q"), ModelValue(2, "Q"), Inf, NaN}

(* the segment arguments offered: 0 for None, then segment numbers *)
SegmentNumbers == 0..2

(***************************************************************************)
(* The record of the last call.                                            *)
(***************************************************************************)
NoLast == [op |-> "none", err |-> "none", dst |-> 0, src |-> 0, keep |-> "None",
           argCols |-> {}, argVars |-> {}, argOk |-> TRUE,
           key |-> "", value |-> PyInt(0), entries |-> <<>>, time |-> 0, window |-> 0,
           predicted |-> <<>>]

(***************************************************************************)
(* Scenario "dm": two plain data managers.                                 *)
(***************************************************************************)
(* DataManager(data, data_origin) into the empty slot s *)
Construct(s) ==
    /\ mode = "dm"
    /\ ~obj[s].alive
    /\ \E in \in ConstructInputs(s) :
          LET data == in[1]
              origin == in[2]
              e == CheckOrigin(data, origin)
          IN /\ obj' = IF e = "none"
                       THEN [obj EXCEPT ![s] = NewDataManager(data, origin)]
                       ELSE obj
             /\ last' = [NoLast EXCEPT !.op = "construct", !.err = e, !.dst = s,
                                       !.argCols = data.cols,
                                       !.argVars = LedgerVars(origin),
                                       !.argOk = (origin.frame /\ origin.keys = LedgerKeys)]
    /\ UNCHANGED <<mode, store, rating_model>>

(* obj[d].add_data(obj[s], keep_curr_obs=keep) *)
AddData(d, s, keep) ==
    /\ mode = "dm"
    /\ d # s
    /\ obj[d].alive /\ obj[s].alive
    /\ obj' = [obj EXCEPT ![d] = AddDataResult(obj[d], obj[s], keep)]
    /\ last' = [NoLast EXCEPT !.op = "add_data", !.err = AddDataError(obj[d], obj[s], keep),
                              !.dst = d, !.src = s, !.keep = keep]
    /\ UNCHANGED <<mode, store, rating_model>>

InitDM ==
    /\ mode = "dm"
    /\ obj = [s \in Objects |-> NoObj]
    /\ store = NewProcParam(StoreCells)
    /\ rating_model = NoModel
    /\ last = NoLast

NextDM ==
    \/ \E s \in Slots : Construct(s)
    \/ \E d \in Slots, s \in Slots, keep \in KeepFlags : AddData(d, s, keep)

SpecDM == InitDM /\ [][NextDM]_vars

(***************************************************************************)
(* Scenario "param": one store of processing parameters.                   *)
(***************************************************************************)
(* store[key] = value *)
SetItem(key, value) ==
    /\ mode = "param"
    /\ store' = SetItemResult(store, key, value)
    /\ last' = [NoLast EXCEPT !.op = "setitem", !.err = SetItemError(store, key, value),
                              !.key = key, !.value = value]
    /\ UNCHANGED <<mode, obj, rating_model>>

(* store.update(entries) *)
Update(entries) ==
    /\ mode = "param"
    /\ store' = UpdateLoop(store, entries).store
    /\ last' = [NoLast EXCEPT !.op = "update", !.err = UpdateLoop(store, entries).err,
                              !.entries = entries]
    /\ UNCHANGED <<mode, obj, rating_model>>

InitParam ==
    /\ mode = "param"
    /\ obj = [s \in Objects |-> NoObj]
    /\ store = NewProcParam(StoreCells)
    /\ rating_model = NoModel
    /\ last = NoLast

NextParam ==
    \/ \E key \in OfferedKeys : \E value \in ProcCandidates(key) : SetItem(key, value)
    \/ \E entries \in UpdateMappings : Update(entries)

SpecParam == InitParam /\ [][NextParam]_vars


(***************************************************************************)
(* Scenario "advm": two ADVM acoustic data sets.                           *)
(***************************************************************************)
(* ADVMSedimentAcousticData(config_params, acoustic_data, data_origin) into the empty slot s *)
ConstructAdvm(s) ==
    /\ mode = "advm"
    /\ ~obj[s].alive
    /\ \E in \in AdvmInputs(s), data_origin \in AcousticLedgers(s) :
          LET config_params == in[1]
              acoustic_data == in[2]
              e == NewAdvmError(config_params, acoustic_data, data_origin)
          IN /\ obj' = IF e = "none"
                       THEN [obj EXCEPT ![s] = NewAdvm(config_params, acoustic_data, data_origin)]
                       ELSE obj
             /\ last' = [NoLast EXCEPT !.op = "construct", !.err = e, !.dst = s,
                                       !.entries = config_params,
                                       !.argCols = {"MeanSCB", "SAC"},
                                       !.argVars = LedgerVars(data_origin)]
    /\ UNCHANGED <<mode, store, rating_model>>

(* obj[s].set_proc_params(proc_params) *)
SetProcParams(s, proc_params) ==
    /\ mode = "advm"
    /\ obj[s].alive
    /\ obj' = [obj EXCEPT ![s] = SetProcParamsResult(obj[s], proc_params)]
    /\ last' = [NoLast EXCEPT !.op = "set_proc_params", !.dst = s, !.entries = proc_params,
                              !.err = SetProcParamsError(obj[s], proc_params)]
    /\ UNCHANGED <<mode, store, rating_model>>

(* obj[d].add_data(obj[s], keep_curr_obs=keep) on two ADVM data sets: the compatibility *)
(* check, other.set_proc_params(self.get_proc_params()), the merge of the raw acoustic  *)
(* frames, then DataManager.add_data on the derived variables                           *)
AddDataAdvm(d, s, keep) ==
    /\ mode = "advm"
    /\ d # s
    /\ obj[d].alive /\ obj[s].alive
    /\ IF ~IsCompatible(obj[d].config, obj[s].config)
       THEN /\ obj' = obj
            /\ last' = [NoLast EXCEPT !.op = "add_data", !.err = "ADVMDataIncompatibleError",
                                      !.dst = d, !.src = s, !.keep = keep]
       ELSE \E other_err \in {SetProcParamsError(obj[s], GetProcParams(obj[d]))},
               other \in {SetProcParamsResult(obj[s], GetProcParams(obj[d]))} :
               IF other_err # "none"
               THEN /\ obj' = [obj EXCEPT ![s] = other]
                    /\ last' = [NoLast EXCEPT !.op = "add_data", !.err = other_err,
                                              !.dst = d, !.src = s, !.keep = keep]
               ELSE \E self \in {[obj[d] EXCEPT !.acoustic = MergeAcoustic(obj[d], other, keep)]} :
                       /\ obj' = [obj EXCEPT ![d] = AddDataResult(self, other, keep),
                                             ![s] = other]
                       /\ last' = [NoLast EXCEPT !.op = "add_data",
                                                 !.err = AddDataError(self, other, keep),
                                                 !.dst = d, !.src = s, !.keep = keep]
    /\ UNCHANGED <<mode, store, rating_model>>

InitAdvm ==
    /\ mode = "advm"
    /\ obj = [s \in Objects |-> NoObj]
    /\ store = NewProcParam(StoreCells)
    /\ rating_model = NoModel
    /\ last = NoLast

NextAdvm ==
    \/ \E s \in Slots : ConstructAdvm(s)
    \/ \E proc_params \in ProcParamInputs : SetProcParams(1, proc_params)
    \/ \E keep \in KeepFlags : AddDataAdvm(1, 2, keep)

SpecAdvm == InitAdvm /\ [][NextAdvm]_vars

(***************************************************************************)
(* Scenario "const": constituent data and two surrogate data sets.         *)
(***************************************************************************)
(* ConstituentData(data, data_origin) *)
ConstructConstituent ==
    /\ mode = "const"
    /\ ~obj[Constituent].alive
    /\ \E data \in ConstituentTables :
       \E origin \in {FileLedger(data, "f1"), MkLedger(<<>>)} :
          /\ obj' = IF CheckOrigin(data, origin) = "none"
                    THEN [obj EXCEPT ![Constituent] = NewConstituentData(data, origin)]
                    ELSE obj
          /\ last' = [NoLast EXCEPT !.op = "construct", !.err = CheckOrigin(data, origin),
                                    !.dst = Constituent, !.argCols = data.cols,
                                    !.argVars = LedgerVars(origin)]
    /\ UNCHANGED <<mode, store, rating_model>>

(* SurrogateData(data, data_origin) into the empty slot s *)
ConstructSurrogate(s) ==
    /\ mode = "const"
    /\ ~obj[s].alive
    /\ \E data \in SurrogateTables(s) :
          /\ obj' = [obj EXCEPT ![s] = NewSurrogateData(data, FileLedger(data, FileOf(s)))]
          /\ last' = [NoLast EXCEPT !.op = "construct", !.dst = s, !.argCols = data.cols,
                                    !.argVars = data.cols]
    /\ UNCHANGED <<mode, store, rating_model>>

(* obj[Constituent].update_data() *)
UpdateData ==
    /\ mode = "const"
    /\ obj[Constituent].alive
    /\ IF obj[Constituent].surrogate = 0
       THEN /\ obj' = obj
            /\ last' = [NoLast EXCEPT !.op = "update_data", !.dst = Constituent]
       ELSE \E surrogate \in {obj[obj[Constituent].surrogate]} :
               /\ obj' = [obj EXCEPT ![Constituent] = UpdateDataResult(obj[Constituent], surrogate)]
               /\ last' = [NoLast EXCEPT !.op = "update_data", !.dst = Constituent,
                                         !.err = UpdateDataError(obj[Constituent], surrogate)]
    /\ UNCHANGED <<mode, store, rating_model>>

(* obj[Constituent].add_surrogate_data(obj[s], keep_curr_obs=keep): the merge into the *)
(* surrogate data already held, the new averaging windows, then update_data            *)
AddSurrogateData(s, keep) ==
    /\ mode = "const"
    /\ obj[Constituent].alive /\ obj[s].alive
    /\ \E held \in {obj[Constituent].surrogate} :
          IF held # 0 /\ AddDataError(obj[held], obj[s], keep) # "none"
          THEN /\ obj' = obj
               /\ last' = [NoLast EXCEPT !.op = "add_surrogate_data", !.dst = held, !.src = s,
                                         !.keep = keep,
                                         !.err = AddDataError(obj[held], obj[s], keep)]
          ELSE \E now \in {IF held = 0 THEN s ELSE held},
                  surrogate \in {IF held = 0 THEN obj[s] ELSE AddDataResult(obj[held], obj[s], keep)} :
               \E self \in {[obj[Constituent] EXCEPT
                               !.surrogate = now,
                               !.window = WithWindows(@, GetVariableNames(surrogate))]} :
                  /\ obj' = [obj EXCEPT ![now] = surrogate,
                                        ![Constituent] = UpdateDataResult(self, surrogate)]
                  /\ last' = [NoLast EXCEPT !.op = "add_surrogate_data", !.dst = now, !.src = s,
                                            !.keep = keep,
                                            !.err = UpdateDataError(self, surrogate)]
    /\ UNCHANGED <<mode, store, rating_model>>

(* obj[Constituent].set_surrogate_avg_window(surrogate_variable_name, avg_window) *)
SetSurrogateAvgWindow(surrogate_variable_name, avg_window) ==
    /\ mode = "const"
    /\ obj[Constituent].alive
    /\ IF obj[Constituent].surrogate = 0
       THEN /\ obj' = obj
            /\ last' = [NoLast EXCEPT !.op = "set_surrogate_avg_window", !.dst = Constituent,
                                      !.key = surrogate_variable_name, !.err = "AttributeError"]
       ELSE \E surrogate \in {obj[obj[Constituent].surrogate]} :
               IF surrogate_variable_name \notin GetVariableNames(surrogate)
               THEN /\ obj' = obj
                    /\ last' = [NoLast EXCEPT !.op = "set_surrogate_avg_window",
                                              !.dst = Constituent,
                                              !.key = surrogate_variable_name,
                                              !.err = "ValueError"]
               ELSE \E self \in {[obj[Constituent] EXCEPT
                                    !.window[surrogate_variable_name] = avg_window]} :
                       /\ obj' = [obj EXCEPT ![Constituent] = UpdateDataResult(self, surrogate)]
                       /\ last' = [NoLast EXCEPT !.op = "set_surrogate_avg_window",
                                                 !.dst = Constituent,
                                                 !.key = surrogate_variable_name,
                                                 !.value = PyInt(avg_window),
                                                 !.err = UpdateDataError(self, surrogate)]
    /\ UNCHANGED <<mode, store, rating_model>>

InitConst ==
    /\ mode = "const"
    /\ obj = [s \in Objects |-> NoObj]
    /\ store = NewProcParam(StoreCells)
    /\ rating_model = NoModel
    /\ last = NoLast

NextConst ==
    \/ ConstructConstituent
    \/ \E s \in Slots : ConstructSurrogate(s)
    \/ UpdateData
    \/ \E s \in Slots, keep \in KeepFlags : AddSurrogateData(s, keep)
    \/ \E variable \in Vars, avg_window \in Windows : SetSurrogateAvgWindow(variable, avg_window)

SpecConst == InitConst /\ [][NextConst]_vars

(***************************************************************************)
(* Scenario "avg": window averages of one surrogate data set.              *)
(***************************************************************************)
(* the surrogate tables the scenario starts from: every time, any cell missing *)
AvgTables ==
    UNION {{[cols |-> C,
             rows |-> [i \in 1..Cardinality(Times) |->
                         [t |-> SortSet(Times)[i],
                          v |-> [c \in C |-> IF <<SortSet(Times)[i], c>> \in P
                                             THEN SurrogateValue(1, SortSet(Times)[i], c)
                                             ELSE NaN]]]] :
              P \in SUBSET (Times \X C)} :
           C \in {{"Q"}, {"Q", "T"}}}

(* the centres of the window offered: the times of the table and one step outside *)
Centres == 0..(MaxTime + 1)

(* obj[1].get_avg_variable_observation(variable_name, time, avg_window) *)
GetAvgVariableObservationCall(variable_name, time, avg_window) ==
    /\ mode = "avg"
    /\ last' = [NoLast EXCEPT
                  !.op = "get_avg_variable_observation", !.dst = 1, !.key = variable_name,
                  !.time = time, !.window = avg_window,
                  !.err = CheckVariableName(obj[1], variable_name),
                  !.value = IF CheckVariableName(obj[1], variable_name) # "none" THEN PyInt(0)
                            ELSE IF GetAvgVariableObservation(obj[1], variable_name, time,
                                                              avg_window) = NaN
                                 THEN PyNaN
                            ELSE PyFloat(GetAvgVariableObservation(obj[1], variable_name, time,
                                                                   avg_window))]
    /\ UNCHANGED <<mode, obj, store, rating_model>>

InitAvg ==
    /\ mode = "avg"
    /\ \E data \in AvgTables :
          obj = [s \in Objects |->
                   IF s = 1 THEN NewSurrogateData(data, FileLedger(data, "f1")) ELSE NoObj]
    /\ store = NewProcParam(StoreCells)
    /\ rating_model = NoModel
    /\ last = NoLast

NextAvg ==
    \E variable_name \in Vars, time \in Centres, avg_window \in Windows :
        GetAvgVariableObservationCall(variable_name, time, avg_window)

SpecAvg == InitAvg /\ [][NextAvg]_vars

(***************************************************************************)
(* Scenario "model": one rating model over the data manager obj[1], its    *)
(* variables and its excluded observations.                                *)
(***************************************************************************)
SingleVariableClasses == {"simple", "complex", "compound"}

(* the part of a call every action of the scenario shares: the model the call *)
(* leaves and the record of the call                                          *)
ModelCall(result, call) ==
    /\ rating_model' = result.self
    /\ last' = [call EXCEPT !.err = result.err]
    /\ UNCHANGED <<mode, obj, store>>

(* rating_model = cls(obj[1], response_variable, explanatory_variable) *)
ConstructModel(cls, response_variable, explanatory_variable) ==
    /\ mode \in {"model", "shared"}
    /\ rating_model.cls = "none"
    /\ \E result \in {NewSingleVariableModel(cls, obj[1], response_variable,
                                             explanatory_variable)} :
          /\ rating_model' = IF result.err = "none" THEN result.self ELSE NoModel
          /\ last' = [NoLast EXCEPT !.op = "construct", !.err = result.err,
                                    !.key = response_variable,
                                    !.entries = <<explanatory_variable>>]
    /\ UNCHANGED <<mode, obj, store>>

(* rating_model = MultipleLinearRatingModel(obj[1], response_variable, explanatory_variables) *)
ConstructMultiple(response_variable, explanatory_variables) ==
    /\ mode = "model"
    /\ rating_model.cls = "none"
    /\ \E result \in {NewMultipleLinearRatingModel(obj[1], response_variable,
                                                   explanatory_variables)} :
          /\ rating_model' = IF result.err = "none" THEN result.self ELSE NoModel
          /\ last' = [NoLast EXCEPT !.op = "construct", !.err = result.err,
                                    !.key = response_variable,
                                    !.entries = explanatory_variables]
    /\ UNCHANGED <<mode, obj, store>>

(* rating_model.exclude_observation(observation_time) *)
ExcludeObservationCall(observation_time) ==
    /\ mode \in {"model", "compound", "segments", "shared"}
    /\ rating_model.cls # "none"
    /\ \E result \in {ExcludeObservation(rating_model, observation_time)} :
          ModelCall(result, [NoLast EXCEPT !.op = "exclude_observation",
                                           !.entries = observation_time])

(* rating_model.include_observation(observation_time) *)
IncludeObservationCall(observation_time) ==
    /\ mode \in {"model", "compound", "segments", "shared"}
    /\ rating_model.cls # "none"
    /\ \E result \in {IncludeObservation(rating_model, observation_time)} :
          ModelCall(result, [NoLast EXCEPT !.op = "include_observation",
                                           !.entries = observation_time])

(* rating_model.include_all_observations() *)
IncludeAllObservationsCall ==
    /\ mode \in {"model", "compound", "segments", "shared"}
    /\ rating_model.cls # "none"
    /\ \E result \in {IncludeAllObservations(rating_model)} :
          ModelCall(result, [NoLast EXCEPT !.op = "include_all_observations"])

(* rating_model.set_response_variable(response_variable) *)
SetResponseVariableCall(response_variable) ==
    /\ mode \in {"model", "shared"}
    /\ rating_model.cls # "none"
    /\ \E result \in {SetResponseVariable(rating_model, response_variable)} :
          ModelCall(result, [NoLast EXCEPT !.op = "set_response_variable",
                                           !.entries = <<response_variable>>])

(* rating_model.set_explanatory_variable(variable) *)
SetExplanatoryVariableCall(variable) ==
    /\ mode \in {"model", "shared"}
    /\ rating_model.cls \in SingleVariableClasses
    /\ \E result \in {SetExplanatoryVariable(rating_model, variable)} :
          ModelCall(result, [NoLast EXCEPT !.op = "set_explanatory_variable",
                                           !.entries = <<variable>>])

(* rating_model.set_explanatory_variables(variables) *)
SetExplanatoryVariablesCall(variables) ==
    /\ mode = "model"
    /\ rating_model.cls = "multiple"
    /\ \E result \in {SetExplanatoryVariables(rating_model, variables)} :
          ModelCall(result, [NoLast EXCEPT !.op = "set_explanatory_variables",
                                           !.entries = variables])

(* rating_model.transform_response_variable(transform) *)
TransformResponseVariableCall(transform) ==
    /\ mode \in {"transform", "segments", "shared"}
    /\ rating_model.cls # "none"
    /\ \E result \in {TransformResponseVariable(rating_model, transform)} :
          ModelCall(result, [NoLast EXCEPT !.op = "transform_response_variable",
                                           !.key = transform])

(* rating_model.transform_explanatory_variable(transform) of a simple linear model *)
TransformExplanatoryVariableCall(transform) ==
    /\ mode = "transform"
    /\ rating_model.cls = "simple"
    /\ \E result \in {TransformExplanatoryVariable(rating_model, transform)} :
          ModelCall(result, [NoLast EXCEPT !.op = "transform_explanatory_variable",
                                           !.key = transform])

(* rating_model.transform_explanatory_variable(explanatory_variable, transform) of a *)
(* multiple linear model                                                             *)
TransformExplanatoryVariableOfCall(explanatory_variable, transform) ==
    /\ mode = "transform"
    /\ rating_model.cls = "multiple"
    /\ \E result \in {TransformExplanatoryVariableOf(rating_model, explanatory_variable,
                                                     transform)} :
          ModelCall(result, [NoLast EXCEPT !.op = "transform_explanatory_variable",
                                           !.key = transform,
                                           !.entries = <<explanatory_variable>>])

(* rating_model.add_explanatory_var_transform(transform) of a complex model *)
ComplexAddExplanatoryVarTransformCall(transform) ==
    /\ mode = "transform"
    /\ rating_model.cls = "complex"
    /\ Len(rating_model.explanatory_variable_transform) < MaxTransforms
    /\ \E result \in {ComplexAddExplanatoryVarTransform(rating_model, transform)} :
          ModelCall(result, [NoLast EXCEPT !.op = "add_explanatory_var_transform",
                                           !.key = transform])

(* rating_model.add_explanatory_var_transform(transform, segment) of a compound model *)
AddExplanatoryVarTransformCall(transform, segment) ==
    /\ mode \in {"transform", "segments"}
    /\ rating_model.cls = "compound"
    /\ \A i \in DOMAIN rating_model.model.segments :
          Len(rating_model.model.segments[i].explanatory_variable_transform) < MaxTransforms
    /\ \E result \in {AddExplanatoryVarTransform(rating_model, transform, segment)} :
          ModelCall(result, [NoLast EXCEPT !.op = "add_explanatory_var_transform",
                                           !.key = transform, !.window = segment])

(* rating_model.add_breakpoint(new_breakpoint) *)
AddBreakpointCall(new_breakpoint) ==
    /\ mode \in {"compound", "segments"}
    /\ rating_model.cls = "compound"
    /\ Len(rating_model.breakpoints.values) < MaxBreakpoints
    /\ \E result \in {AddBreakpoint(rating_model, new_breakpoint)} :
          ModelCall(result, [NoLast EXCEPT !.op = "add_breakpoint",
                                           !.time = new_breakpoint])

(* rating_model.remove_breakpoint(breakpoint) *)
RemoveBreakpointCall(breakpoint) ==
    /\ mode \in {"compound", "segments"}
    /\ rating_model.cls = "compound"
    /\ \E result \in {RemoveBreakpoint(rating_model, breakpoint)} :
          ModelCall(result, [NoLast EXCEPT !.op = "remove_breakpoint",
                                           !.time = breakpoint])

(* rating_model.reset_breakpoints() *)
ResetBreakpointsCall ==
    /\ mode \in {"compound", "segments"}
    /\ rating_model.cls = "compound"
    /\ \E result \in {ResetBreakpoints(rating_model)} :
          ModelCall(result, [NoLast EXCEPT !.op = "reset_breakpoints"])

(* rating_model.predict_response_variable(explanatory_data): explanatory_data is *)
(* obj[src], or None when src is 0                                               *)
PredictResponseVariableCall(src) ==
    /\ mode = "compound"
    /\ rating_model.cls = "compound"
    /\ \E result \in {PredictResponseVariable(rating_model,
                                              IF src = 0 THEN NoObj ELSE obj[src])} :
          last' = [NoLast EXCEPT !.op = "predict_response_variable", !.err = result.err,
                                 !.src = src, !.predicted = result.predicted]
    /\ UNCHANGED <<mode, obj, store, rating_model>>

InitModel ==
    /\ mode = "model"
    /\ \E data \in ModelTables :
          obj = [s \in Objects |->
                   IF s = 1 THEN NewDataManager(data, FileLedger(data, "f1")) ELSE NoObj]
    /\ store = NewProcParam(StoreCells)
    /\ rating_model = NoModel
    /\ last = NoLast

NextModel ==
    \/ \E cls \in SingleVariableClasses, response_variable \in {"None", "T", "X"},
          explanatory_variable \in {"None", "Q", "X"} :
          ConstructModel(cls, response_variable, explanatory_variable)
    \/ \E response_variable \in {"None", "T", "X"}, variables \in ModelNameLists :
          ConstructMultiple(response_variable, variables)
    \/ \E observation_time \in ObservationTimes : ExcludeObservationCall(observation_time)
    \/ \E observation_time \in ObservationTimes : IncludeObservationCall(observation_time)
    \/ IncludeAllObservationsCall
    \/ \E variable \in ModelNames : SetResponseVariableCall(variable)
    \/ \E variable \in ModelNames : SetExplanatoryVariableCall(variable)
    \/ \E variables \in ModelNameLists : SetExplanatoryVariablesCall(variables)

SpecModel == InitModel /\ [][NextModel]_vars

(***************************************************************************)
(* Scenario "transform": the transforms of one rating model of each class, *)
(* built with its default variables; the compound model with one segment   *)
(* or, after add_breakpoint, with two.                                     *)
(***************************************************************************)
(* the data manager of the scenarios "transform" and "compound" *)
ModelData ==
    LET data == CHOOSE tb \in ModelTables : Cardinality(tb.cols) = 2
    IN NewDataManager(data, FileLedger(data, "f1"))

InitTransform ==
    /\ mode = "transform"
    /\ obj = [s \in Objects |-> IF s = 1 THEN ModelData ELSE NoObj]
    /\ store = NewProcParam(StoreCells)
    /\ rating_model \in
          {NewSingleVariableModel(cls, ModelData, "None", "None").self :
              cls \in SingleVariableClasses}
          \cup {NewMultipleLinearRatingModel(ModelData, "None", <<>>).self,
                AddBreakpoint(NewCompoundRatingModel(ModelData, "None", "None").self,
                              ModelValue(2, "Q")).self}
    /\ last = NoLast

NextTransform ==
    \/ \E transform \in TransformTokens : TransformResponseVariableCall(transform)
    \/ \E transform \in TransformTokens : TransformExplanatoryVariableCall(transform)
    \/ \E variable \in ModelNames, transform \in TransformTokens :
          TransformExplanatoryVariableOfCall(variable, transform)
    \/ \E transform \in TransformTokens : ComplexAddExplanatoryVarTransformCall(transform)
    \/ \E transform \in TransformTokens, segment \in SegmentNumbers :
          AddExplanatoryVarTransformCall(transform, segment)

SpecTransform == InitTransform /\ [][NextTransform]_vars

(***************************************************************************)
(* Scenario "compound": the breakpoints of one compound model.             *)
(***************************************************************************)
InitCompound ==
    /\ mode = "compound"
    /\ obj = [s \in Objects |-> IF s = 1 THEN ModelData ELSE NoObj]
    /\ store = NewProcParam(StoreCells)
    /\ rating_model = NewCompoundRatingModel(ModelData, "None", "None").self
    /\ last = NoLast

NextCompound ==
    \/ \E new_breakpoint \in BreakpointValues : AddBreakpointCall(new_breakpoint)
    \/ \E breakpoint \in BreakpointValues : RemoveBreakpointCall(breakpoint)
    \/ ResetBreakpointsCall
    \/ \E observation_time \in ObservationTimes : ExcludeObservationCall(observation_time)
    \/ \E observation_time \in ObservationTimes : IncludeObservationCall(observation_time)
    \/ IncludeAllObservationsCall
    \/ \E src \in {0, 1} : PredictResponseVariableCall(src)

SpecCompound == InitCompound /\ [][NextCompound]_vars

(***************************************************************************)
(* Scenario "inverse": a transform of the rating models and its inverse.   *)
(***************************************************************************)
(* the largest integer offered to the transforms *)
MaxValue == 30

(* the largest power of e offered to the transforms *)
MaxEPower == 3

(* the numbers offered: the integers, the powers of ten and the powers of e *)
TransformInputs ==
    {Real(n) : n \in (-MaxValue)..MaxValue}
       \cup {Real(TenTo(n)) : n \in 0..MaxPowerOfTen}
       \cup {EPower(n) : n \in (-MaxEPower)..MaxEPower}

(* the numbers on which the transform is computed exactly: a logarithm of a positive *)
(* number is offered only where it is an integer                                     *)
Computable(transform, x) ==
    /\ (transform = "log" /\ (x.k = "exp" \/ x.n > 0)) => HasExactLog(x)
    /\ (transform = "log10" /\ (x.k = "exp" \/ x.n > 0)) => HasExactLog10(x)

(* _inverse_transform_functions[transform](_transform_functions[transform](x)) *)
InverseOfTransform(transform, x) ==
    /\ mode = "inverse"
    /\ Computable(transform, x)
    /\ last' = [NoLast EXCEPT
                  !.op = "inverse_transform", !.key = transform, !.entries = <<x>>,
                  !.value = InverseTransformFunction(transform,
                                                     TransformFunction(transform, x))]
    /\ UNCHANGED <<mode, obj, store, rating_model>>

InitInverse ==
    /\ mode = "inverse"
    /\ obj = [s \in Objects |-> NoObj]
    /\ store = NewProcParam(StoreCells)
    /\ rating_model = NoModel
    /\ last = NoLast

NextInverse ==
    \E transform \in Transforms, x \in TransformInputs : InverseOfTransform(transform, x)

SpecInverse == InitInverse /\ [][NextInverse]_vars

(***************************************************************************)
(* Scenario "scb": _calc_scb on one row of WCB.                            *)
(***************************************************************************)
(* the rows of WCB offered: three cells, each missing or one of two values *)
WcbValues == {NaN, 4000, 5000}

WcbRows == {<<a, b, c>> : a \in WcbValues, b \in WcbValues, c \in WcbValues}

(* the SAC offered, in hundredths of dB per metre *)
SacValues == {NaN, 0, 150, -75}

(* the cell ranges offered: cells of 1 m, and cells of no length *)
CellRangeRows == {<<50, 150, 250>>, <<100, 100, 100>>}

(* ADVMSedimentAcousticData._calc_scb(wcb, sac, cell_range) *)
CalcScbCall(wcb, sac, r) ==
    /\ mode = "scb"
    /\ last' = [NoLast EXCEPT !.op = "calc_scb", !.entries = <<wcb, r>>, !.time = sac,
                              !.predicted = CalcScb(wcb, sac, r)]
    /\ UNCHANGED <<mode, obj, store, rating_model>>

InitScb ==
    /\ mode = "scb"
    /\ obj = [s \in Objects |-> NoObj]
    /\ store = NewProcParam(StoreCells)
    /\ rating_model = NoModel
    /\ last = NoLast

NextScb ==
    \E wcb \in WcbRows, sac \in SacValues, r \in CellRangeRows : CalcScbCall(wcb, sac, r)

SpecScb == InitScb /\ [][NextScb]_vars

(***************************************************************************)
(* Scenario "segments": the segments of one compound model, their          *)
(* transforms, the breakpoints and the excluded observations.              *)
(***************************************************************************)
(* the segment arguments offered; 0 stands for None *)
SegmentArguments == (-1)..3

(* rating_model.remove_explanatory_var_transform(transform, segment) *)
RemoveExplanatoryVarTransformCall(transform, segment) ==
    /\ mode = "segments"
    /\ \E result \in {RemoveExplanatoryVarTransform(rating_model, transform, segment)} :
          ModelCall(result, [NoLast EXCEPT !.op = "remove_explanatory_var_transform",
                                           !.key = transform, !.window = segment])

(* rating_model.reset_explanatory_var_transform(segment) *)
ResetExplanatoryVarTransformCall(segment) ==
    /\ mode = "segments"
    /\ \E result \in {ResetExplanatoryVarTransformOf(rating_model, segment)} :
          ModelCall(result, [NoLast EXCEPT !.op = "reset_explanatory_var_transform",
                                           !.window = segment])

(* rating_model.get_model_formula(segment) *)
GetModelFormulaCall(segment) ==
    /\ mode = "segments"
    /\ \E result \in {CompoundGetModelFormula(rating_model, segment)} :
          /\ last' = [NoLast EXCEPT !.op = "get_model_formula", !.err = result.err,
                                    !.window = segment, !.entries = result.formula]
          /\ UNCHANGED <<mode, obj, store, rating_model>>

InitSegments ==
    /\ mode = "segments"
    /\ obj = [s \in Objects |-> IF s = 1 THEN ModelData ELSE NoObj]
    /\ store = NewProcParam(StoreCells)
    /\ rating_model = NewCompoundRatingModel(ModelData, "None", "None").self
    /\ last = NoLast

NextSegments ==
    \/ AddBreakpointCall(ModelValue(2, "Q"))
    \/ RemoveBreakpointCall(ModelValue(2, "Q"))
    \/ ResetBreakpointsCall
    \/ ExcludeObservationCall(<<1>>)
    \/ IncludeObservationCall(<<1>>)
    \/ IncludeAllObservationsCall
    \/ TransformResponseVariableCall("log")
    \/ \E segment \in SegmentArguments : AddExplanatoryVarTransformCall("log", segment)
    \/ \E segment \in SegmentArguments : RemoveExplanatoryVarTransformCall("None", segment)
    \/ \E segment \in SegmentArguments : ResetExplanatoryVarTransformCall(segment)
    \/ \E segment \in SegmentArguments : GetModelFormulaCall(segment)

SpecSegments == InitSegments /\ [][NextSegments]_vars

(***************************************************************************)
(* Scenario "shared": one rating model and the data manager obj[1] it was  *)
(* built on, which takes the observations of obj[2] by add_data.           *)
(***************************************************************************)
(* a data manager with the observations of both variables at the times I *)
ModelDataAt(I, file) ==
    LET data == [cols |-> {"Q", "T"},
                 rows |-> [i \in 1..Cardinality(I) |->
                             [t |-> SortSet(I)[i],
                              v |-> [c \in {"Q", "T"} |-> ModelValue(SortSet(I)[i], c)]]]]
    IN NewDataManager(data, FileLedger(data, file))

(* obj[1].add_data(obj[2], keep_curr_obs=keep); self._data_manager of the rating model *)
(* is the object obj[1]                                                                *)
AddDataShared(keep) ==
    /\ mode = "shared"
    /\ obj' = [obj EXCEPT ![1] = AddDataResult(obj[1], obj[2], keep)]
    /\ rating_model' = IF rating_model.cls = "none" THEN rating_model
                       ELSE [rating_model EXCEPT
                               !.data_manager = AddDataResult(obj[1], obj[2], keep)]
    /\ last' = [NoLast EXCEPT !.op = "add_data", !.err = AddDataError(obj[1], obj[2], keep),
                              !.dst = 1, !.src = 2, !.keep = keep]
    /\ UNCHANGED <<mode, store>>

InitShared ==
    /\ mode = "shared"
    /\ obj = [s \in Objects |->
                IF s = 1 THEN ModelDataAt({1}, "f1")
                ELSE IF s = 2 THEN ModelDataAt(ModelTimes \ {1}, "f2")
                ELSE NoObj]
    /\ store = NewProcParam(StoreCells)
    /\ rating_model = NoModel
    /\ last = NoLast

NextShared ==
    \/ \E cls \in {"simple", "compound"} : ConstructModel(cls, "None", "None")
    \/ \E keep \in {"None", "True"} : AddDataShared(keep)
    \/ ExcludeObservationCall(<<1>>)
    \/ IncludeObservationCall(<<1>>)
    \/ IncludeAllObservationsCall
    \/ \E transform \in {"None", "log"} : TransformResponseVariableCall(transform)
    \/ \E variable \in {"Q", "T"} : SetResponseVariableCall(variable)
    \/ \E variable \in {"Q", "T"} : SetExplanatoryVariableCall(variable)

SpecShared == InitShared /\ [][NextShared]_vars

(***************************************************************************)
(* Every scenario.                                                         *)
(***************************************************************************)
Init == InitDM \/ InitParam \/ InitAdvm \/ InitConst \/ InitAvg

Next == NextDM \/ NextParam \/ NextAdvm \/ NextConst \/ NextAvg

Spec == Init /\ [][Next]_vars

(***************************************************************************)
(* Properties.                                                             *)
(***************************************************************************)
NoDuplicates(r) == \A i \in DOMAIN r, j \in DOMAIN r : r[i] = r[j] => i = j

(* the call just made is a merge into obj[last'.dst] from obj[last'.src] *)
Merged(keep) == last'.op = "add_data" /\ last'.keep = keep

(* some variable of both managers, and some label of both tables *)
SharedStamp(a, b) == (a.cols \cap b.cols # {}) /\ (Index(a) \cap Index(b) # {})

(* some variable of both managers observed (not missing) in both at one label *)
SharedObservation(a, b) ==
    \E c \in a.cols \cap b.cols : \E i \in DOMAIN a.rows, j \in DOMAIN b.rows :
        a.rows[i].t = b.rows[j].t /\ a.rows[i].v[c] # NaN /\ b.rows[j].v[c] # NaN

(* C1: in every state reached by construction, add_data, update_data, add_surrogate_data, *)
(* set_surrogate_avg_window and set_proc_params, the set of the variable names in the     *)
(* origin ledger of every data manager equals the set of the columns of its table.        *)
C1_LedgerMatchesColumns ==
    \A s \in Objects : obj[s].alive => LedgerVars(obj[s].origin) = obj[s].data.cols

(* update_data has merged an averaged surrogate variable into the constituent data, whose *)
(* ledger now names the surrogate file as well                                            *)
C1_Witness ==
    /\ mode = "const"
    /\ last.op = "add_surrogate_data" /\ last.err = "none"
    /\ obj[Constituent].data.cols = {"SSC", "Q"}
    /\ LedgerVars(obj[Constituent].origin) = {"SSC", "Q"}
    /\ \E i \in DOMAIN obj[Constituent].data.rows : obj[Constituent].data.rows[i].v["Q"] # NaN

(* C2 as stated: add_data(other, None) raises ConcurrentObservationError exactly when a *)
(* variable of both managers has a timestamp that is in both tables.                    *)
C2_AsStated ==
    [][Merged("None") =>
         ((last'.err = "ConcurrentObservationError")
             <=> SharedStamp(obj[last'.dst].data, obj[last'.src].data))]_vars

(* C2 amended: add_data(other, None) raises ConcurrentObservationError exactly when a    *)
(* variable of both managers has a non-missing observation at one timestamp in both, and *)
(* succeeds otherwise.                                                                   *)
C2_ConcurrentObservation ==
    [][Merged("None") =>
         /\ (last'.err = "ConcurrentObservationError")
               <=> SharedObservation(obj[last'.dst].data, obj[last'.src].data)
         /\ ~SharedObservation(obj[last'.dst].data, obj[last'.src].data)
               => last'.err = "none"]_vars

(* a merge with keep_curr_obs=None went through although a shared variable has a shared *)
(* timestamp: one of the two values there is missing                                    *)
C2_Witness ==
    /\ last.op = "add_data" /\ last.keep = "None" /\ last.err = "none"
    /\ \E c \in obj[last.src].data.cols : \E t \in Index(obj[last.src].data) :
          Cell(obj[last.src].data, t, c) = NaN /\ Cell(obj[last.dst].data, t, c) # NaN

(* the table, the ledger, the raw acoustic table and the processing parameters *)
Committed(m) == <<m.data, m.origin, m.acoustic, m.proc>>

(* C3 as stated: when a merge with keep_curr_obs=None raises ConcurrentObservationError, *)
(* the receiving and the incoming manager are left as they were (table, ledger, raw       *)
(* acoustic table, processing parameters), whatever the kind of the managers.             *)
C3_AsStated ==
    [][(/\ last'.op \in {"add_data", "add_surrogate_data"}
        /\ last'.keep = "None"
        /\ last'.err = "ConcurrentObservationError")
          => /\ Committed(obj'[last'.dst]) = Committed(obj[last'.dst])
             /\ Committed(obj'[last'.src]) = Committed(obj[last'.src])]_vars

C5_AsStated ==
    [][(last'.op = "add_data" /\ last'.err = "none" /\ last'.keep # "None") =>
         \A t \in Index(obj[last'.dst].data) \cap Index(obj[last'.src].data) :
            \A c \in obj[last'.dst].data.cols :
               IF last'.keep = "True"
               THEN Cell(obj'[last'.dst].data, t, c) = Cell(obj[last'.dst].data, t, c)
               ELSE (Cell(obj[last'.src].data, t, c) # NaN
                       => Cell(obj'[last'.dst].data, t, c) = Cell(obj[last'.src].data, t, c))]_vars

(* C5 amended: after A.add_data(B, True), at every timestamp of both and every variable  *)
(* of A, A still holds the value it had when that value is not missing, and a missing    *)
(* value of A is filled with B's value; with False B's non-missing value is preferred    *)
(* and A's value stays where B's is missing.                                             *)
C5_CurrentPreferred ==
    [][(last'.op = "add_data" /\ last'.err = "none" /\ last'.keep # "None") =>
         \A t \in Index(obj[last'.dst].data) \cap Index(obj[last'.src].data) :
            \A c \in obj[last'.dst].data.cols :
               LET mine == Cell(obj[last'.dst].data, t, c)
                   theirs == Cell(obj[last'.src].data, t, c)
                   now == Cell(obj'[last'.dst].data, t, c)
               IN IF last'.keep = "True"
                  THEN now = (IF mine # NaN THEN mine ELSE theirs)
                  ELSE now = (IF theirs # NaN THEN theirs ELSE mine)]_vars

(* after a merge with keep_curr_obs=True the receiver kept its own value where both *)
(* managers have one, and took the incoming value where its own was missing         *)
C5_Witness ==
    /\ last.op = "add_data" /\ last.keep = "True" /\ last.err = "none" /\ last.dst = 1
    /\ \E t \in Index(obj[2].data) : \E c \in obj[2].data.cols :
          Cell(obj[2].data, t, c) = 2 /\ Cell(obj[1].data, t, c) = 1
    /\ \E t \in Index(obj[2].data) : \E c \in obj[2].data.cols :
          Cell(obj[2].data, t, c) = 2 /\ Cell(obj[1].data, t, c) = 2

(* C6: constructing a DataManager from a table and a (variable, origin) ledger raises   *)
(* DataOriginError exactly when the ledger's variables differ from the table's columns, *)
(* and a failed construction creates no manager.                                        *)
C6_OriginMismatch ==
    last.op = "construct" =>
       /\ last.argOk => ((last.err = "DataOriginError") <=> (last.argVars # last.argCols))
       /\ last.argOk => ((last.err = "none") <=> (last.argVars = last.argCols))
       /\ (last.err # "none") <=> ~obj[last.dst].alive

(* a construction was refused although every ledger variable is a column of the table *)
C6_Witness ==
    /\ last.op = "construct" /\ last.err = "DataOriginError" /\ last.argOk
    /\ last.argVars # {} /\ last.argVars \subseteq last.argCols /\ last.argVars # last.argCols
    /\ ~obj[last.dst].alive

(* C7: after a successful merge the receiver's ledger holds exactly the (variable,       *)
(* origin) pairs of the two ledgers, each once, and get_variable_origin(v) returns every *)
(* origin recorded for v exactly once.                                                   *)
C7_LedgerUnion ==
    [][(last'.op = "add_data" /\ last'.err = "none") =>
         /\ LedgerPairs(obj'[last'.dst].origin)
               = LedgerPairs(obj[last'.dst].origin) \cup LedgerPairs(obj[last'.src].origin)
         /\ NoDuplicates(obj'[last'.dst].origin.rows)
         /\ \A c \in obj'[last'.dst].data.cols :
               LET got == GetVariableOrigin(obj'[last'.dst], c)
               IN /\ NoDuplicates(got)
                  /\ {got[i].origin : i \in DOMAIN got}
                        = {r.origin : r \in {x \in LedgerPairs(obj[last'.dst].origin)
                                                   \cup LedgerPairs(obj[last'.src].origin) :
                                                x.variable = c}}]_vars

(* the receiver of a successful merge records two origins for one variable, one of them *)
(* recorded by both managers                                                            *)
C7_Witness ==
    /\ last.op = "add_data" /\ last.err = "none"
    /\ \E c \in obj[last.dst].data.cols : Len(GetVariableOrigin(obj[last.dst], c)) = 2
    /\ LedgerPairs(obj[last.src].origin) \cap LedgerPairs(obj[last.dst].origin) # {}
    /\ Len(obj[last.dst].origin.rows) > Cardinality(LedgerPairs(obj[last.src].origin))

(* C8: store[key] = value raises when the key is unknown or the value fails the key's  *)
(* check and then leaves the store as it was; otherwise it stores the value under the  *)
(* key and nothing else changes, so every stored value passes its key's check.         *)
C8_SetItemValidated ==
    [][last'.op = "setitem" =>
         /\ last'.key \notin DOMAIN store.dict => last'.err # "none"
         /\ CheckValue(store, last'.key, last'.value) # "none" => last'.err # "none"
         /\ last'.err # "none" => store' = store
         /\ last'.err = "none" =>
               /\ last'.key \in DOMAIN store.dict
               /\ store' = [store EXCEPT !.dict[last'.key] = last'.value]
         /\ \A key \in DOMAIN store'.dict :
               CheckValue(store', key, store'.dict[key]) = "none"]_vars

(* a rejected assignment to a known key left the parameter at a value set before *)
C8_Witness ==
    /\ last.op = "setitem" /\ last.err = "ValueError" /\ last.key = "Beam"
    /\ last.value = PyInt(3) /\ store.dict["Beam"] = PyInt(2)

(* the first entry of a dictionary the check rejects (0 when every entry passes) *)
FirstRejected(p, entries) ==
    LET bad == {i \in DOMAIN entries :
                   CheckValue(p, entries[i].key, entries[i].value) # "none"}
    IN IF bad = {} THEN 0 ELSE CHOOSE i \in bad : \A j \in bad : i <= j

(* C9: update(mapping) applies the entries in order up to the first rejected one: the  *)
(* error of that entry is raised, the entries before it are applied, that entry and    *)
(* the later ones are not, and no other key changes.                                   *)
C9_UpdatePartial ==
    [][last'.op = "update" =>
         LET entries == last'.entries
             k == FirstRejected(store, entries)
             applied == IF k = 0 THEN DOMAIN entries ELSE 1..(k - 1)
         IN /\ (last'.err = "none") <=> (k = 0)
            /\ k # 0 => last'.err = CheckValue(store, entries[k].key, entries[k].value)
            /\ \A i \in applied : store'.dict[entries[i].key] = entries[i].value
            /\ \A key \in DOMAIN store.dict :
                  (\A i \in applied : entries[i].key # key)
                     => store'.dict[key] = store.dict[key]
            /\ DOMAIN store'.dict = DOMAIN store.dict]_vars

(* an update failed at its second entry and its first entry stays applied *)
C9_Witness ==
    /\ last.op = "update" /\ last.err = "ValueError" /\ Len(last.entries) = 2
    /\ last.entries[1] = [key |-> "Beam", value |-> PyInt(2)]
    /\ last.entries[2] = [key |-> "Minimum Number of Cells", value |-> PyInt(0)]
    /\ store.dict["Beam"] = PyInt(2)
    /\ store.dict["Minimum Number of Cells"] # PyInt(0)

(* the processing parameters and the derived tables of an acoustic data set *)
Derived(m) == <<m.proc, m.mb, m.wcb, m.scb, m.data>>

(* C10 as stated: set_proc_params with a dictionary that holds an invalid entry raises and *)
(* leaves the processing parameters and the derived tables (measured backscatter, WCB,     *)
(* SCB, MeanSCB, SAC) as they were before the call.                                        *)
C10_AsStated ==
    [][(/\ last'.op = "set_proc_params"
        /\ SetProcLoop(obj[last'.dst].proc, last'.entries).err # "none")
          => /\ last'.err # "none"
             /\ Derived(obj'[last'.dst]) = Derived(obj[last'.dst])]_vars

(* two parameter values are the same value: equal numbers, equal texts, or both NaN *)
SameValue(a, b) == (a = PyNaN /\ b = PyNaN) \/ PyEq(a, b)

(* the configurations differ in one of the five keys of the instrument geometry *)
ConfigsDiffer(a, b) ==
    \E key \in {"Frequency", "Slant Angle", "Blanking Distance", "Cell Size", "Number of Cells"} :
        ~SameValue(a.dict[key], b.dict[key])

(* C11 as stated: merging two acoustic data sets raises ADVMDataIncompatibleError exactly *)
(* when their configurations differ in Frequency, Slant Angle, Blanking Distance, Cell     *)
(* Size or Number of Cells, and a merge that raises it modifies neither data set.          *)
C11_AsStated ==
    [][(mode = "advm" /\ last'.op = "add_data")
          => /\ (last'.err = "ADVMDataIncompatibleError")
                   <=> ConfigsDiffer(obj[last'.dst].config, obj[last'.src].config)
             /\ (last'.err = "ADVMDataIncompatibleError") => obj' = obj]_vars

(* the exceptions the stages of the correction raise *)
PipelineErrors == {"AssertionError", "ValueError", "KeyError"}

(* C12 as stated: with a configuration the validators accept, the correction run by the *)
(* constructor completes without raising, and so does the correction run by             *)
(* set_proc_params with processing parameters the validators accept.                    *)
C12_AsStated ==
    [][/\ (/\ mode = "advm" /\ last'.op = "construct"
           /\ UpdateLoop(NewConfigParam, last'.entries).err = "none")
             => last'.err \notin PipelineErrors
       /\ (/\ last'.op = "set_proc_params"
           /\ SetProcLoop(obj[last'.dst].proc, last'.entries).err = "none")
             => last'.err = "none"]_vars

(* the non-missing observations of the variable in (time - window, time + window] *)
Qualifying(m, variable_name, time, window) ==
    {r \in Range(m.data.rows) :
        r.v[variable_name] # NaN /\ time - window < r.t /\ r.t <= time + window}

(* C13: get_avg_variable_observation(variable, centre, w) returns the mean of exactly the *)
(* non-missing observations of the variable with centre - w < t <= centre + w, and NaN     *)
(* when no observation qualifies.                                                        *)
C13_WindowAverage ==
    (last.op = "get_avg_variable_observation" /\ last.err = "none")
      => LET q == Qualifying(obj[1], last.key, last.time, last.window)
             times == {r.t : r \in q}
         IN IF q = {} THEN last.value = PyNaN
            ELSE /\ last.value.k = "float"
                 /\ last.value.n * Cardinality(q)
                       = SumOver([t \in times |-> Cell(obj[1].data, t, last.key)], times)

(* the variable is observed at times 1 and 2 and the window is (1, 3]: the observation *)
(* on the lower bound is left out and the average is the observation at time 2         *)
C13_Witness ==
    /\ last.op = "get_avg_variable_observation" /\ last.err = "none"
    /\ last.window = 1 /\ last.time = 2
    /\ Cell(obj[1].data, 1, last.key) # NaN /\ Cell(obj[1].data, 2, last.key) # NaN
    /\ Cell(obj[1].data, 1, last.key) # Cell(obj[1].data, 2, last.key)
    /\ last.value = PyFloat(Cell(obj[1].data, 2, last.key))

(* C14 as stated: after set_surrogate_avg_window or add_surrogate_data returns, the value *)
(* the constituent data holds for every surrogate variable at every constituent timestamp  *)
(* is the window average around that timestamp with the current window of the variable     *)
(* (NaN when no observation qualifies); no value of an earlier window or of earlier        *)
(* surrogate data survives.                                                                *)
C14_AsStated ==
    (/\ mode = "const"
     /\ last.op \in {"set_surrogate_avg_window", "add_surrogate_data"}
     /\ last.err = "none")
      => \A variable \in GetVariableNames(obj[obj[Constituent].surrogate]) :
            \A i \in DOMAIN obj[Constituent].data.rows :
               obj[Constituent].data.rows[i].v[variable]
                  = GetAvgVariableObservation(obj[obj[Constituent].surrogate], variable,
                                              obj[Constituent].data.rows[i].t,
                                              obj[Constituent].window[variable])

(* a sequence in ascending order *)
Sorted(s) == \A i \in DOMAIN s, j \in DOMAIN s : i < j => s[i] <= s[j]

(* C15: the excluded observations of a rating model behave as a set under            *)
(* exclude_observation, include_observation and include_all_observations: the        *)
(* collection never holds a timestamp twice, excluding adds exactly the timestamps   *)
(* given (so excluding an excluded timestamp changes nothing), including removes     *)
(* exactly the timestamps given (so including a timestamp that is not excluded       *)
(* changes nothing), and include_all_observations leaves it empty every time.        *)
C15_ExcludedIsASet ==
    [][LET before == rating_model.excluded_observations
           after == rating_model'.excluded_observations
           given == Range(last'.entries)
       IN /\ NoDuplicates(after)
          /\ last'.op = "exclude_observation" =>
                /\ Range(after) = Range(before) \cup given
                /\ given \subseteq Range(before) => after = before
          /\ last'.op = "include_observation" =>
                /\ Range(after) = Range(before) \ given
                /\ given \cap Range(before) = {} => after = before
          /\ last'.op = "include_all_observations" => after = <<>>]_vars

(* an index that names one timestamp twice was excluded from a model that had already *)
(* excluded another timestamp                                                          *)
C15_Witness ==
    /\ last.op = "exclude_observation"
    /\ last.entries = <<2, 2>>
    /\ rating_model.excluded_observations = <<1, 2>>

(* C16: the transform operations accept exactly None, 'log', 'log10' and 'pow2': any  *)
(* other token raises InvalidVariableTransformError and leaves the model, its         *)
(* transforms and its fit, as it was; none of the four tokens raises that error, and  *)
(* a call that completes has assigned its token.                                      *)
C16_TransformTokens ==
    [][last'.op \in {"transform_response_variable", "transform_explanatory_variable",
                     "add_explanatory_var_transform"} =>
          /\ last'.err = "InvalidVariableTransformError"
                <=> last'.key \notin {"None", "log", "log10", "pow2"}
          /\ last'.err = "InvalidVariableTransformError" => rating_model' = rating_model
          /\ (last'.err = "none" /\ last'.op = "transform_response_variable") =>
                rating_model'.variable_transform[rating_model.response_variable] = last'.key
          /\ (last'.err = "none" /\ last'.op = "transform_explanatory_variable") =>
                rating_model'.variable_transform[
                   IF rating_model.cls = "simple" THEN rating_model.explanatory_variables[1]
                   ELSE last'.entries[1]] = last'.key
          /\ (last'.err = "none" /\ last'.op = "add_explanatory_var_transform"
                /\ rating_model.cls = "complex") =>
                rating_model'.explanatory_variable_transform =
                   Append(rating_model.explanatory_variable_transform, last'.key)
          /\ (last'.err = "none" /\ last'.op = "add_explanatory_var_transform"
                /\ rating_model.cls = "compound") =>
                \A i \in DOMAIN rating_model.model.segments :
                   (last'.window \in {0, i}) =>
                      rating_model'.model.segments[i].explanatory_variable_transform =
                         Append(rating_model.model.segments[i].explanatory_variable_transform,
                                last'.key)]_vars

(* an unrecognised token was refused by a model whose response is already transformed *)
C16_Witness ==
    /\ last.op \in {"transform_explanatory_variable", "add_explanatory_var_transform"}
    /\ last.key = "sqrt"
    /\ last.err = "InvalidVariableTransformError"
    /\ rating_model.variable_transform[rating_model.response_variable] = "log"

(* C17: the response variable and every explanatory variable of a rating model are    *)
(* variables of its data manager, after construction and after every setter; a setter *)
(* given a name that is not in the data manager raises                                *)
(* InvalidModelVariableNameError and leaves the selection as it was.                  *)
C17_VariablesExist ==
    [][/\ rating_model'.cls # "none" =>
             /\ rating_model'.response_variable
                   \in GetVariableNames(rating_model'.data_manager)
             /\ Range(rating_model'.explanatory_variables)
                   \subseteq GetVariableNames(rating_model'.data_manager)
       /\ (/\ last'.op \in {"set_response_variable", "set_explanatory_variable",
                            "set_explanatory_variables"}
           /\ ~(Range(last'.entries) \subseteq GetVariableNames(obj[1]))) =>
             /\ last'.err = "InvalidModelVariableNameError"
             /\ rating_model'.response_variable = rating_model.response_variable
             /\ rating_model'.explanatory_variables = rating_model.explanatory_variables]_vars

(* a list with one unknown name was refused by a multiple linear model whose *)
(* explanatory variables had been set before                                 *)
C17_Witness ==
    /\ last.op = "set_explanatory_variables"
    /\ last.entries = <<"T", "X">>
    /\ last.err = "InvalidModelVariableNameError"
    /\ rating_model.explanatory_variables = <<"Q">>

(* the breakpoints are in ascending order, from -inf to +inf *)
Bracketed(breakpoints) ==
    /\ Sorted(breakpoints)
    /\ breakpoints # <<>>
    /\ breakpoints[1] = -Inf
    /\ breakpoints[Len(breakpoints)] = Inf

(* C18: every add_breakpoint, remove_breakpoint and reset_breakpoints call on a       *)
(* compound model completes without an error and leaves the breakpoints sorted, with  *)
(* -inf first and +inf last.                                                          *)
C18_AsStated ==
    [][last'.op \in {"add_breakpoint", "remove_breakpoint", "reset_breakpoints"} =>
          /\ last'.err = "none"
          /\ Bracketed(rating_model'.breakpoints.values)]_vars

(* the segments of the compound model that hold the observation of time t *)
SegmentsOf(t) ==
    {i \in DOMAIN rating_model.model.segments :
        t \in Index(rating_model.model.segments[i].data_manager.data)}

C20_AsStated ==
    (last.op = "predict_response_variable" /\ last.err = "none") =>
       /\ \A k \in DOMAIN last.predicted :
             SegmentRangeIndex(Cell(IF last.src = 0 THEN rating_model.model_dataset
                                    ELSE obj[last.src].data,
                                    last.predicted[k].t,
                                    rating_model.explanatory_variables[1]),
                               rating_model.breakpoints.values[last.predicted[k].segment],
                               rating_model.breakpoints.values[last.predicted[k].segment + 1])
       /\ Sorted([k \in DOMAIN last.predicted |-> last.predicted[k].t])

(* the number the last round trip started from is greater than zero *)
Positive(x) == x.k = "exp" \/ (x.k = "real" /\ x.n > 0)

PipelineResult(o) ==
    /\ UpdateAcousticError(o) = "none"
    /\ UpdateAcousticData(o).obj = o
    /\ UpdateAcousticData(o).acoustic_data = o.data

(* C22 as stated: after a construction, a set_proc_params or an add_data that succeeded, *)
(* the cell range, the measured backscatter, WCB, SCB and the exposed MeanSCB and SAC of  *)
(* the acoustic data set equal the result of the full pipeline on its current raw        *)
(* observations and parameters.                                                          *)
C22_AsStated ==
    (/\ last.op \in {"construct", "set_proc_params", "add_data"}
     /\ last.err = "none")
       => PipelineResult(obj[last.dst])

(* the WCB of row i of o before the profile adjustment *)
RawWcb(o, i) ==
    IF o.config.dict["Frequency"] = PyNaN
    THEN [k \in DOMAIN o.mb[i].v |-> NaN]
    ELSE CalcWcb(o.mb[i].v, o.acoustic.rows[i].v["Temp"], o.cell_range[i].v,
                 o.proc.dict["Near Field Correction"] = PyBool(TRUE))

(* the profile adjustment as C23 states it: the boundary is the valid cell of minimum  *)
(* WCB, one cell back when the row has more than one valid cell and the minimum is not *)
(* the first cell; the cells farther than the boundary become invalid, unless no valid *)
(* cell would be left                                                                  *)
AdjustedAsStated(wcb, r) ==
    IF Valid(wcb) = {} THEN wcb
    ELSE LET least == {k \in Valid(wcb) : \A j \in Valid(wcb) : wcb[k] <= wcb[j]}
             min_cell == CHOOSE k \in least : \A j \in least : k <= j
             boundary == IF Cardinality(Valid(wcb)) > 1 /\ min_cell > 1
                         THEN min_cell - 1 ELSE min_cell
             farther == {k \in DOMAIN r : r[k] > r[boundary]}
         IN IF Valid(wcb) \subseteq farther THEN wcb
            ELSE [k \in DOMAIN wcb |-> IF k \in farther THEN NaN ELSE wcb[k]]

(* the stored WCB of row i of o is the stated adjustment of the raw WCB, followed by   *)
(* the Vbeam and the cell range filters                                                *)
WcbRowAsStated(o, i) ==
    o.wcb[i].v =
       ApplyCellRangeFilter(
          RemoveMinVbeam(AdjustedAsStated(RawWcb(o, i), o.cell_range[i].v),
                         o.acoustic.rows[i].v["Vbeam"], o.proc.dict["Minimum Vbeam"]),
          o.cell_range[i].v, o.proc.dict["Minimum Cell Mid-Point Distance"],
          o.proc.dict["Maximum Cell Mid-Point Distance"])

(* C23 as stated: with the WCB profile adjustment enabled, after a construction or a  *)
(* set_proc_params that succeeded, in every observation the cells farther than the    *)
(* boundary (the cell of minimum WCB, stepped back one cell when the observation has  *)
(* more than one valid cell and the minimum is not the first cell) are invalid, and   *)
(* the row is left as it was when that would invalidate all its cells.                *)
C23_AsStated ==
    (/\ last.op \in {"construct", "set_proc_params"}
     /\ last.err = "none"
     /\ obj[last.dst].proc.dict["WCB Profile Adjustment"] = PyBool(TRUE))
       => \A i \in 1..Len(obj[last.dst].acoustic.rows) : WcbRowAsStated(obj[last.dst], i)

(* the SAC exposed for row i of o: the rows of SAC follow the rows of MeanSCB *)
ExposedSac(o, i) == o.data.rows[Len(o.acoustic.rows) + i].v["SAC"]

(* the cells of a row of WCB that are valid lie at more than one range *)
DistinctRanges(wcb, r) == \E j, k \in Valid(wcb) : r[j] # r[k]

(* -0.5 times the least-squares slope of wcb against r over the valid cells, in       *)
(* hundredths of dB per metre: the slope is the covariance over the variance of r     *)
MinusHalfSlope(wcb, r) ==
    LET fit == Valid(wcb)
        n == Cardinality(fit)
        cov == n * SumOver([k \in fit |-> r[k] * wcb[k]], fit) - SumOver(r, fit) * SumOver(wcb, fit)
        var == n * SumOver([k \in fit |-> r[k] * r[k]], fit) - SumOver(r, fit) * SumOver(r, fit)
    IN -((100 * cov) \div (2 * var))

(* the acoustic data set the last call built or reprocessed *)
Processed ==
    /\ last.op \in {"construct", "set_proc_params"}
    /\ last.err = "none"

C25_SingleCellPassThrough ==
    last.op = "calc_scb" =>
       LET wcb == last.entries[1]
           r == last.entries[2]
           sac == last.time
           scb == last.predicted
       IN /\ Cardinality(Valid(wcb)) = 1 => scb = wcb
          /\ Cardinality(Valid(wcb)) > 1 =>
                \A k \in DOMAIN wcb :
                   scb[k] = IF wcb[k] = NaN \/ sac = NaN THEN NaN
                            ELSE wcb[k] + (2 * sac * r[k]) \div 100

(* a row with one valid cell and a SAC that is a number went through _calc_scb *)
C25_Witness ==
    /\ last.op = "calc_scb"
    /\ last.entries[1] = <<NaN, 5000, NaN>>
    /\ last.time = 150
    /\ last.predicted = <<NaN, 5000, NaN>>

(* the variables a rating model selects *)
Selected(self) == {self.response_variable} \cup Range(self.explanatory_variables)

(* the timestamps where the data manager of the model holds an observation of a *)
(* selected variable                                                            *)
ObservedTimes(self) ==
    UNION {ObsTimes(self.data_manager.data, c) : c \in Selected(self)}

(* the flags of the rows of the materialized dataset are as stated, and the fit uses *)
(* the rows with neither flag                                                        *)
FlagsAsStated(self) ==
    /\ \A i \in DOMAIN GetModelDataset(self) :
          LET row == GetModelDataset(self)[i]
          IN /\ row.Missing <=> \E c \in Selected(self) : row.v[c] = NaN
             /\ row.Excluded <=> row.t \in Range(self.excluded_observations)
    /\ self.model.subset =
          {GetModelDataset(self)[i].t :
             i \in {j \in DOMAIN GetModelDataset(self) :
                      /\ ~GetModelDataset(self)[j].Missing
                      /\ ~GetModelDataset(self)[j].Excluded}}

(* C26 as stated: every timestamp with an observation of the response or of an        *)
(* explanatory variable is a row of the materialized model dataset; its Missing flag  *)
(* is true iff a response or explanatory value of the row is NaN, its Excluded flag   *)
(* iff the timestamp is excluded; the rows with neither flag are those fitted.        *)
C26_AsStated ==
    (/\ mode = "model"
     /\ rating_model.cls \in {"simple", "complex", "multiple"}
     /\ rating_model.model.fitted
     /\ last.err = "none")
       => /\ \A t \in ObservedTimes(rating_model) :
                \E i \in DOMAIN GetModelDataset(rating_model) :
                   GetModelDataset(rating_model)[i].t = t
          /\ FlagsAsStated(rating_model)

(* the nested models of a compound model are one per segment, each over the          *)
(* observations of its interval, with the excluded set and the response transform of *)
(* the compound model and the identity as its only explanatory transform             *)
SegmentsRebuilt(self) ==
    LET b == self.breakpoints.values
        x == self.explanatory_variables[1]
    IN /\ Len(self.model.segments) = Len(b) - 1
       /\ \A i \in DOMAIN self.model.segments :
             LET segment == self.model.segments[i]
             IN /\ Index(segment.data_manager.data) =
                      {t \in Index(self.model_dataset) :
                          /\ Cell(self.model_dataset, t, x) # NaN
                          /\ b[i] <= Cell(self.model_dataset, t, x)
                          /\ Cell(self.model_dataset, t, x) < b[i + 1]}
                /\ \A t \in Index(segment.data_manager.data), c \in self.model_dataset.cols :
                      Cell(segment.data_manager.data, t, c) = Cell(self.model_dataset, t, c)
                /\ segment.excluded_observations = self.excluded_observations
                /\ segment.variable_transform[self.response_variable] =
                      self.variable_transform[self.response_variable]
                /\ segment.explanatory_variable_transform = <<"None">>

(* C27 as stated: after every add_breakpoint, remove_breakpoint or reset_breakpoints  *)
(* call the compound model holds one nested model per segment (the number of          *)
(* breakpoints minus one), each built over exactly the observations of its interval,  *)
(* each with the excluded set and the response transform of the compound model and    *)
(* with its explanatory transforms reset to the identity only.                        *)
C27_AsStated ==
    last.op \in {"add_breakpoint", "remove_breakpoint", "reset_breakpoints"}
       => SegmentsRebuilt(rating_model)

(* the calls that change the variable selection, a transform or the excluded set *)
ModelMutations ==
    {"set_response_variable", "set_explanatory_variable", "transform_response_variable",
     "exclude_observation", "include_observation", "include_all_observations"}

(* C28 as stated: after a call that changed the variable selection, a transform or    *)
(* the excluded set of a rating model, its model dataset holds the observations the   *)
(* shared data manager now holds for the selected response and explanatory variables, *)
(* those merged into the data manager since the previous rebuild included.            *)
C28_AsStated ==
    (/\ last.op \in ModelMutations
     /\ last.err = "none")
       => rating_model.model_dataset = CreateModelDataset(rating_model).model_dataset

(* the explanatory transforms of the segments of a compound model, segment by segment *)
SegmentTransforms(self) ==
    [i \in DOMAIN self.model.segments |-> self.model.segments[i].explanatory_variable_transform]

(* C29 as stated: exclude_observation, include_observation and                        *)
(* include_all_observations on a compound model leave its breakpoints and the         *)
(* explanatory transforms of each of its segments as they were before the call.       *)
C29_AsStated ==
    [][last'.op \in {"exclude_observation", "include_observation", "include_all_observations"}
          => /\ rating_model'.breakpoints = rating_model.breakpoints
             /\ SegmentTransforms(rating_model') = SegmentTransforms(rating_model)]_vars

(* the calls of a compound model that take a segment argument *)
SegmentCalls ==
    {"add_explanatory_var_transform", "remove_explanatory_var_transform",
     "reset_explanatory_var_transform", "get_model_formula"}

(* C30 as stated: a call of add_, remove_ or reset_explanatory_var_transform or of    *)
(* get_model_formula with a segment number outside 1..number_of_segments raises       *)
(* ValueError, and with a segment number inside that range it changes the nested      *)
(* model of that segment only.                                                        *)
C30_AsStated ==
    [][last'.op \in SegmentCalls
          => IF last'.window \in 1..Len(rating_model.model.segments)
             THEN /\ last'.err = "none"
                  /\ \A i \in DOMAIN rating_model.model.segments :
                        i # last'.window =>
                           rating_model'.model.segments[i] = rating_model.model.segments[i]
             ELSE last'.err = "ValueError" /\ rating_model' = rating_model]_vars

====
